---- MODULE Spec2Model ----
(***************************************************************************)
(* A model of include/thinks/fastMarchingMethod.hpp for N = 2.             *)
(*                                                                         *)
(* Arithmetic.  The scalar type T is modelled as a bounded fixed-point     *)
(* format: a finite value is an integer number of 1/Scale units whose      *)
(* magnitude does not exceed kMax (numeric_limits<T>::max()); a result     *)
(* that exceeds the range becomes +Inf or -Inf, Inf - Inf and 0/0 are NaN, *)
(* and every comparison with NaN is false.  Intermediate results of the    *)
(* quadratic are carried exactly (as integers over a known denominator)    *)
(* and range checked after every operation in the order the code performs  *)
(* them; the root is rounded down to the 1/Scale grid.                     *)
(*                                                                         *)
(* Build.  The header only builds with NDEBUG (the assert at line 1153     *)
(* names an undeclared variable), so assertions are no-ops.                *)
(***************************************************************************)
EXTENDS Integers, Sequences, FiniteSets, Bags, TLC

\* ------------------------------------------------------------------------
\* Bounds of the model
\* ------------------------------------------------------------------------
Scale == 2
MaxSeeds == 2
MaxBand == 5
MaxSignedSeeds == 5
MaxPops == 12
MaxExtent == 3
MaxWrites == 2

\* numeric_limits<T>::max(), in whole units and in 1/Scale units
kMaxReal == 10000
kMax == kMaxReal * Scale
kInf == kMax + 1
kNaN == kMax + 2

\* ------------------------------------------------------------------------
\* Scalar helpers
\* ------------------------------------------------------------------------
Abs(n) == IF n < 0 THEN -n ELSE n

isnan(d) == d = kNaN

\* operator< and operator<= of T
Lt(a, b) == ~isnan(a) /\ ~isnan(b) /\ a < b
Le(a, b) == ~isnan(a) /\ ~isnan(b) /\ a <= b

frozen(d) == Lt(d, kMax)

\* the product with the distance left out
TimesIgnoresDistance(multiplier, d) == multiplier

\* multiplier * distance for multiplier in {1, -1}
Times(multiplier, d) ==
  IF isnan(d) THEN kNaN ELSE multiplier * d

\* Extended values of intermediate results: <<"fin", n>>, <<"inf", 1>>,
\* <<"inf", -1>> and <<"nan", 0>>; n is a numerator over a denominator that
\* the caller knows, lim the largest finite numerator at that denominator.
Fin(n) == <<"fin", n>>
PInf == <<"inf", 1>>
NInf == <<"inf", -1>>
XNaN == <<"nan", 0>>

IsFin(a) == a[1] = "fin"
IsInf(a) == a[1] = "inf"
IsXNaN(a) == a[1] = "nan"
Sgn(a) == IF IsInf(a) THEN a[2] ELSE IF a[2] > 0 THEN 1 ELSE IF a[2] < 0 THEN -1 ELSE 0

Clamp(n, lim) == IF n > lim THEN PInf ELSE IF n < -lim THEN NInf ELSE Fin(n)

ToX(d) == IF isnan(d) THEN XNaN
          ELSE IF d >= kInf THEN PInf
          ELSE IF d <= -kInf THEN NInf
          ELSE Fin(d)

FromX(a) == IF IsXNaN(a) THEN kNaN
            ELSE IF IsInf(a) THEN a[2] * kInf
            ELSE a[2]

XMul(a, b, lim) ==
  IF IsXNaN(a) \/ IsXNaN(b) THEN XNaN
  ELSE IF IsInf(a) \/ IsInf(b)
    THEN IF Sgn(a) = 0 \/ Sgn(b) = 0 THEN XNaN
         ELSE IF Sgn(a) * Sgn(b) > 0 THEN PInf ELSE NInf
  ELSE IF a[2] = 0 \/ b[2] = 0 THEN Fin(0)
  ELSE IF Abs(a[2]) > lim \div Abs(b[2])
    THEN IF Sgn(a) * Sgn(b) > 0 THEN PInf ELSE NInf
  ELSE Fin(a[2] * b[2])

XAdd(a, b, lim) ==
  IF IsXNaN(a) \/ IsXNaN(b) THEN XNaN
  ELSE IF IsInf(a) /\ IsInf(b) THEN IF a[2] = b[2] THEN a ELSE XNaN
  ELSE IF IsInf(a) THEN a
  ELSE IF IsInf(b) THEN b
  ELSE Clamp(a[2] + b[2], lim)

XNeg(a) == IF IsXNaN(a) THEN a ELSE <<a[1], -a[2]>>

XSub(a, b, lim) == XAdd(a, XNeg(b), lim)

XLt0(a) == ~IsXNaN(a) /\ a[2] < 0

RECURSIVE ISqrtBetween(_, _, _)
ISqrtBetween(n, lo, hi) ==
  IF lo >= hi THEN lo
  ELSE LET mid == (lo + hi + 1) \div 2
       IN IF mid <= n \div mid THEN ISqrtBetween(n, mid, hi)
          ELSE ISqrtBetween(n, lo, mid - 1)

\* floor of the square root of n >= 0
ISqrt(n) == ISqrtBetween(n, 0, IF n < 46340 THEN n ELSE 46340)

XSqrt(a) ==
  IF IsXNaN(a) THEN XNaN
  ELSE IF IsInf(a) THEN IF a[2] > 0 THEN PInf ELSE XNaN
  ELSE IF a[2] < 0 THEN XNaN
  ELSE Fin(ISqrt(a[2]))

\* a / b where the quotient of the numerators is already at the result's
\* denominator
XDiv(a, b, lim) ==
  IF IsXNaN(a) \/ IsXNaN(b) THEN XNaN
  ELSE IF IsInf(a) /\ IsInf(b) THEN XNaN
  ELSE IF IsInf(a) THEN IF Sgn(b) >= 0 THEN a ELSE XNeg(a)
  ELSE IF IsInf(b) THEN Fin(0)
  ELSE IF b[2] = 0
    THEN IF a[2] = 0 THEN XNaN ELSE IF a[2] > 0 THEN PInf ELSE NInf
  ELSE IF b[2] > 0 THEN Clamp(a[2] \div b[2], lim)
  ELSE Clamp((-a[2]) \div (-b[2]), lim)

\* ------------------------------------------------------------------------
\* Grid (N = 2); a C++ index[i] is index[i + 1] here
\* ------------------------------------------------------------------------
kDimension == 2

LinearSize(size) == size[1] * size[2]

Squared(x) == x * x

Inside(index, size) ==
  \A i \in 1..kDimension : 0 <= index[i] /\ index[i] < size[i]

HasZeroElement(grid_size) == \E i \in 1..kDimension : grid_size[i] = 0

\* strides[i - 1] for i in 1 .. N - 1
GridStrides(grid_size) == <<grid_size[1]>>

\* GridLinearIndex with the roles of the two axes exchanged
GridLinearIndexLastAxisFirst(index, grid_strides) ==
  index[2] + index[1] * grid_strides[1]

GridLinearIndex(index, grid_strides) == index[1] + index[2] * grid_strides[1]

\* Grid::Cell for an index inside the grid; cells is the buffer, 0-based
Cell(cells, size, index) == cells[GridLinearIndex(index, GridStrides(size))]

WithCell(cells, size, index, v) ==
  [cells EXCEPT ![GridLinearIndex(index, GridStrides(size))] = v]

\* the constructor without ThrowIfInvalidCellBufferSize
GridErrorNoBufferSizeCheck(size, cell_buffer_size) ==
  IF HasZeroElement(size) THEN "invalid grid size" ELSE "none"

\* the error message of the Grid / ConstGrid constructor, "none" if it succeeds
GridError(size, cell_buffer_size) ==
  IF HasZeroElement(size) THEN "invalid grid size"
  ELSE IF LinearSize(size) # cell_buffer_size THEN "grid size does not match cell buffer size"
  ELSE "none"

Offset(index, i, d) == [index EXCEPT ![i] = @ + d]

kNeighborOffsets == <<-1, 1>>

\* all indices of a grid
Indices(size) == (0..(size[1] - 1)) \X (0..(size[2] - 1))

\* ------------------------------------------------------------------------
\* Eikonal solvers
\* ------------------------------------------------------------------------
Lim(den) == kMaxReal * den

\* The common denominator of -1 / speed^2 and of 1 / grid_spacing[i]^2
InvDen(speed, grid_spacing) == Squared(speed * grid_spacing[1] * grid_spacing[2])

Thrown(msg) == [err |-> msg, value |-> 0]
Returned(v) == [err |-> "none", value |-> v]

\* q = <<q[0], q[1], q[2]>> over the denominators Scale^2 W, Scale W and W
SolveEikonalQuadratic(q, W) ==
  LET q1sq == XMul(q[2], q[2], Lim(Scale * Scale * W * W))
      fq2 == XMul(Fin(4), q[3], Lim(W))
      fq2q0 == XMul(fq2, q[1], Lim(Scale * Scale * W * W))
      discriminant == XSub(q1sq, fq2q0, Lim(Scale * Scale * W * W))
      numer == XAdd(XNeg(q[2]), XSqrt(discriminant), Lim(Scale * W))
      denom == XMul(Fin(2), q[3], Lim(W))
      root == XDiv(numer, denom, kMax)
  IN IF XLt0(discriminant) THEN Thrown("negative discriminant")
     ELSE IF XLt0(root) THEN Thrown("negative distance")
     ELSE Returned(FromX(root))

\* NeighborMinDistance that keeps the first frozen neighbor it finds
NeighborMinDistanceFirstFrozen(index, cells, size, i) ==
  LET lo == Offset(index, i, kNeighborOffsets[1])
      hi == Offset(index, i, kNeighborOffsets[2])
  IN IF Inside(lo, size) /\ Lt(Cell(cells, size, lo), kMax)
     THEN Cell(cells, size, lo)
     ELSE IF Inside(hi, size) /\ Lt(Cell(cells, size, hi), kMax)
     THEN Cell(cells, size, hi) ELSE kMax

\* neighbor_min_distance after the loop over the two directions of axis i:
\* the smallest frozen face neighbor of index along axis i, kMax if none
NeighborMinDistance(index, cells, size, i) ==
  LET lo == Offset(index, i, kNeighborOffsets[1])
      hi == Offset(index, i, kNeighborOffsets[2])
      m1 == IF Inside(lo, size) /\ Lt(Cell(cells, size, lo), kMax)
            THEN Cell(cells, size, lo) ELSE kMax
  IN IF Inside(hi, size) /\ Lt(Cell(cells, size, hi), m1)
     THEN Cell(cells, size, hi) ELSE m1

\* q after the first order contribution of axis i with neighbor_min_distance
\* m; W is the denominator of q[2]
FirstOrderCoefficientsOver(q, m, W, grid_spacing, i) ==
  LET inv_grid_spacing_squared == Fin(W \div Squared(grid_spacing[i]))
      sq == XMul(ToX(m), ToX(m), Lim(Scale * Scale))
      t0 == XMul(sq, inv_grid_spacing_squared, Lim(Scale * Scale * W))
      m2 == XMul(Fin(-2), ToX(m), Lim(Scale))
      t1 == XMul(m2, inv_grid_spacing_squared, Lim(Scale * W))
  IN <<XAdd(q[1], t0, Lim(Scale * Scale * W)),
       XAdd(q[2], t1, Lim(Scale * W)),
       XAdd(q[3], inv_grid_spacing_squared, Lim(W))>>

\* q after the contribution of one axis with neighbor_min_distance m
FirstOrderCoefficients(q, m, speed, grid_spacing, i) ==
  FirstOrderCoefficientsOver(q, m, InvDen(speed, grid_spacing), grid_spacing, i)

\* one iteration of the loop over the axes
SolveEikonalAxis(i, q, index, cells, size, speed, grid_spacing) ==
  LET m == NeighborMinDistance(index, cells, size, i)
  IN IF Lt(m, kMax)
     THEN FirstOrderCoefficients(q, m, speed, grid_spacing, i)
     ELSE q

RECURSIVE SolveEikonalAxes(_, _, _, _, _, _, _)
SolveEikonalAxes(i, q, index, cells, size, speed, grid_spacing) ==
  IF i > kDimension THEN q
  ELSE SolveEikonalAxes(i + 1,
                        SolveEikonalAxis(i, q, index, cells, size, speed, grid_spacing),
                        index, cells, size, speed, grid_spacing)

\* q before the loop over the axes: -1 / speed^2 over the denominator of q[0]
InitialCoefficients(speed, W) ==
  <<Fin(-(Scale * Scale * (W \div Squared(speed)))), Fin(0), Fin(0)>>

SolveEikonal(index, cells, size, speed, grid_spacing) ==
  LET W == InvDen(speed, grid_spacing)
  IN SolveEikonalQuadratic(
       SolveEikonalAxes(1, InitialCoefficients(speed, W), index, cells, size,
                        speed, grid_spacing), W)

\* The coefficients of HighAccuracySolveEikonal are carried over four times
\* the denominators of SolveEikonal, which makes 9 / (4 h^2) a whole numerator.
HighAccuracyInvDen(speed, grid_spacing) == 4 * InvDen(speed, grid_spacing)

\* <<neighbor_min_distance, neighbor_min_distance2>> after the directions j ..
\* of axis i, m their values before
RECURSIVE HighAccuracyNeighborMinDistances(_, _, _, _, _, _)
HighAccuracyNeighborMinDistances(j, index, cells, size, i, m) ==
  IF j > Len(kNeighborOffsets) THEN m
  ELSE LET neighbor_index == Offset(index, i, kNeighborOffsets[j])
           neighbor_index2 == Offset(neighbor_index, i, kNeighborOffsets[j])
       IN IF Inside(neighbor_index, size) /\ Lt(Cell(cells, size, neighbor_index), m[1])
          THEN HighAccuracyNeighborMinDistances(
                 j + 1, index, cells, size, i,
                 <<Cell(cells, size, neighbor_index),
                   IF /\ Inside(neighbor_index2, size)
                      /\ Le(Cell(cells, size, neighbor_index2),
                            Cell(cells, size, neighbor_index))
                   THEN Cell(cells, size, neighbor_index2)
                   ELSE m[2]>>)
          ELSE HighAccuracyNeighborMinDistances(j + 1, index, cells, size, i, m)

\* q after the second order contribution of axis i: alpha = 9 / (4 h^2) and
\* t = (4 m1 - m2) / 3, t carried as a numerator over 3 Scale
SecondOrderCoefficients(q, m1, m2, W, grid_spacing, i) ==
  LET w == W \div (4 * Squared(grid_spacing[i]))
      four_m1 == XMul(Fin(4), ToX(m1), Lim(Scale))
      t == XSub(four_m1, ToX(m2), Lim(3 * Scale))
      sq == XMul(t, t, Lim(9 * Scale * Scale))
      t0 == XMul(sq, Fin(w), Lim(Scale * Scale * W))
      m2t == XMul(Fin(-2), t, Lim(3 * Scale))
      t1 == XMul(m2t, Fin(3 * w), Lim(Scale * W))
  IN <<XAdd(q[1], t0, Lim(Scale * Scale * W)),
       XAdd(q[2], t1, Lim(Scale * W)),
       XAdd(q[3], Fin(9 * w), Lim(W))>>

\* one iteration of the loop over the axes of HighAccuracySolveEikonal
HighAccuracySolveEikonalAxis(i, q, index, cells, size, speed, grid_spacing) ==
  LET W == HighAccuracyInvDen(speed, grid_spacing)
      m == HighAccuracyNeighborMinDistances(1, index, cells, size, i, <<kMax, kMax>>)
  IN IF Lt(m[1], kMax)
     THEN IF Lt(m[2], kMax)
          THEN SecondOrderCoefficients(q, m[1], m[2], W, grid_spacing, i)
          ELSE FirstOrderCoefficientsOver(q, m[1], W, grid_spacing, i)
     ELSE q

RECURSIVE HighAccuracySolveEikonalAxes(_, _, _, _, _, _, _)
HighAccuracySolveEikonalAxes(i, q, index, cells, size, speed, grid_spacing) ==
  IF i > kDimension THEN q
  ELSE HighAccuracySolveEikonalAxes(
         i + 1,
         HighAccuracySolveEikonalAxis(i, q, index, cells, size, speed, grid_spacing),
         index, cells, size, speed, grid_spacing)

HighAccuracySolveEikonal(index, cells, size, speed, grid_spacing) ==
  LET W == HighAccuracyInvDen(speed, grid_spacing)
  IN SolveEikonalQuadratic(
       HighAccuracySolveEikonalAxes(1, InitialCoefficients(speed, W), index, cells,
                                    size, speed, grid_spacing), W)

\* EikonalSolverType::Solve of the uniform and the varying speed solver
Solve(solver, index, cells, size) ==
  IF solver.kind = "uniform"
  THEN SolveEikonal(index, cells, size, solver.speed, solver.grid_spacing)
  ELSE IF ~Inside(index, solver.speed_grid_size)
  THEN Thrown("index outside speed grid")
  ELSE SolveEikonal(index, cells, size,
                    Cell(solver.speed_buffer, solver.speed_grid_size, index),
                    solver.grid_spacing)

\* ------------------------------------------------------------------------
\* Solver construction
\* ------------------------------------------------------------------------
InvalidGridSpacing(grid_spacing) ==
  \E i \in 1..kDimension : isnan(grid_spacing[i]) \/ grid_spacing[i] <= 0

\* the test of the speed without the NaN case
ZeroOrNegativeSpeed(speed) == speed <= 0

ZeroOrNegativeOrNanSpeed(speed) == isnan(speed) \/ speed <= 0

\* the error thrown by the constructor of the solver, "none" if it succeeds
UniformSpeedEikonalSolverBase(in) ==
  IF InvalidGridSpacing(in.grid_spacing) THEN "invalid grid spacing"
  ELSE IF ZeroOrNegativeOrNanSpeed(in.speed) THEN "invalid speed"
  ELSE "none"

VaryingSpeedEikonalSolverBase(in) ==
  IF InvalidGridSpacing(in.grid_spacing) THEN "invalid grid spacing"
  ELSE IF GridError(in.speed_grid_size, Cardinality(DOMAIN in.speed_buffer)) # "none"
    THEN GridError(in.speed_grid_size, Cardinality(DOMAIN in.speed_buffer))
  ELSE IF \E k \in DOMAIN in.speed_buffer : ZeroOrNegativeOrNanSpeed(in.speed_buffer[k])
    THEN "invalid speed"
  ELSE "none"

SolverError(in) ==
  IF in.kind = "uniform" THEN UniformSpeedEikonalSolverBase(in)
  ELSE VaryingSpeedEikonalSolverBase(in)

\* ------------------------------------------------------------------------
\* SetBoundaryCondition
\* ------------------------------------------------------------------------
\* the distance predicates of the drivers
DistancePredicate(kind, d) ==
  IF kind = "unsigned" THEN ~isnan(d) /\ frozen(d) /\ Le(0, d)
  ELSE ~isnan(d)

RECURSIVE SetBoundaryConditionLoop(_, _, _, _, _, _, _)
SetBoundaryConditionLoop(i, indices, distances, multiplier, kind, cells, size) ==
  IF i > Len(indices) THEN
    IF Len(indices) = LinearSize(size)
    THEN [err |-> "whole grid frozen", cells |-> cells]
    ELSE [err |-> "none", cells |-> cells]
  ELSE IF ~Inside(indices[i], size) THEN
    [err |-> "frozen index outside grid", cells |-> cells]
  ELSE IF ~DistancePredicate(kind, distances[i]) THEN
    [err |-> "invalid frozen distance", cells |-> cells]
  ELSE IF frozen(Cell(cells, size, indices[i])) THEN
    [err |-> "duplicate frozen index", cells |-> cells]
  ELSE SetBoundaryConditionLoop(
         i + 1, indices, distances, multiplier, kind,
         WithCell(cells, size, indices[i], Times(multiplier, distances[i])), size)

\* SetBoundaryCondition without the comparison of the two lengths
SetBoundaryConditionNoSizeCheck(indices, distances, multiplier, kind, cells, size) ==
  IF Len(indices) = 0 THEN [err |-> "empty frozen indices", cells |-> cells]
  ELSE SetBoundaryConditionLoop(1, indices, distances, multiplier, kind, cells, size)

\* the error thrown ("none" if it returns) and the cells at that moment
SetBoundaryConditionResult(indices, distances, multiplier, kind, cells, size) ==
  IF Len(indices) = 0 THEN [err |-> "empty frozen indices", cells |-> cells]
  ELSE IF Len(indices) # Len(distances)
    THEN [err |-> "frozen indices/distances size mismatch", cells |-> cells]
  ELSE SetBoundaryConditionLoop(1, indices, distances, multiplier, kind, cells, size)

\* ------------------------------------------------------------------------
\* Narrow band: a bag of entries <<distance, index>>
\* ------------------------------------------------------------------------
Push(band, entry) == band (+) SetToBag({entry})

Remove(band, entry) == band (-) SetToBag({entry})

\* The entries Pop may return.  HeapComparison_ orders by distance only, so
\* any entry of least distance may be on top; with a NaN distance in the heap
\* the comparison is no strict weak order and the heap order is lost.
PopCandidates(band) ==
  IF \E e \in BagToSet(band) : isnan(e[1])
  THEN BagToSet(band)
  ELSE {e \in BagToSet(band) : \A f \in BagToSet(band) : ~Lt(f[1], e[1])}

\* the face neighbors of index in the order the loops visit them
FaceNeighbors(index) ==
  <<Offset(index, 1, kNeighborOffsets[1]), Offset(index, 1, kNeighborOffsets[2]),
    Offset(index, 2, kNeighborOffsets[1]), Offset(index, 2, kNeighborOffsets[2])>>

\* InitialBandLoop without the test of narrow_band_grid: a cell is pushed once
\* for each seed it is a face neighbor of
RECURSIVE InitialBandLoopNoLabels(_, _, _, _, _, _, _, _, _)
InitialBandLoopNoLabels(k, j, frozen_indices, cells, size, solver, labelled, band, calls) ==
  IF k > Len(frozen_indices) THEN [err |-> "none", band |-> band, solved |-> calls]
  ELSE IF j > 2 * kDimension
    THEN InitialBandLoopNoLabels(k + 1, 1, frozen_indices, cells, size, solver,
                                 labelled, band, calls)
  ELSE LET neighbor_index == FaceNeighbors(frozen_indices[k])[j]
       IN IF Inside(neighbor_index, size)
          THEN LET r == Solve(solver, neighbor_index, cells, size)
               IN IF r.err # "none"
                  THEN [err |-> r.err, band |-> band,
                        solved |-> calls (+) SetToBag({neighbor_index})]
                  ELSE InitialBandLoopNoLabels(
                         k, j + 1, frozen_indices, cells, size, solver, labelled,
                         Push(band, <<r.value, neighbor_index>>),
                         calls (+) SetToBag({neighbor_index}))
          ELSE InitialBandLoopNoLabels(k, j + 1, frozen_indices, cells, size, solver,
                                       labelled, band, calls)

\* the loops over the seeds and their face neighbors; labelled is the set of
\* cells of narrow_band_grid that are kNarrowBand, calls the bag of the indices
\* Solve has been called with
RECURSIVE InitialBandLoop(_, _, _, _, _, _, _, _, _)
InitialBandLoop(k, j, frozen_indices, cells, size, solver, labelled, band, calls) ==
  IF k > Len(frozen_indices) THEN [err |-> "none", band |-> band, solved |-> calls]
  ELSE IF j > 2 * kDimension
    THEN InitialBandLoop(k + 1, 1, frozen_indices, cells, size, solver, labelled,
                         band, calls)
  ELSE LET neighbor_index == FaceNeighbors(frozen_indices[k])[j]
       IN IF Inside(neighbor_index, size) /\ neighbor_index \notin labelled
          THEN LET r == Solve(solver, neighbor_index, cells, size)
               IN IF r.err # "none"
                  THEN [err |-> r.err, band |-> band,
                        solved |-> calls (+) SetToBag({neighbor_index})]
                  ELSE InitialBandLoop(k, j + 1, frozen_indices, cells, size, solver,
                                       labelled \cup {neighbor_index},
                                       Push(band, <<r.value, neighbor_index>>),
                                       calls (+) SetToBag({neighbor_index}))
          ELSE InitialBandLoop(k, j + 1, frozen_indices, cells, size, solver,
                               labelled, band, calls)

\* InitialUnsignedNarrowBand that pushes the distance of the seed for each of
\* its face neighbors, not the solution of the solver
InitialUnsignedNarrowBandSeedDistance(frozen_indices, cells, size, solver) ==
  [err |-> "none",
   band |-> SetToBag({<<Cell(cells, size, frozen_indices[k]),
                        FaceNeighbors(frozen_indices[k])[j]>> :
                        <<k, j>> \in {kj \in (1..Len(frozen_indices)) \X (1..(2 * kDimension)) :
                                        Inside(FaceNeighbors(frozen_indices[kj[1]])[kj[2]], size)}}),
   solved |-> EmptyBag]

InitialUnsignedNarrowBand(frozen_indices, cells, size, solver) ==
  InitialBandLoop(1, 1, frozen_indices, cells, size, solver, {}, EmptyBag, EmptyBag)

RECURSIVE UpdateNeighborsLoop(_, _, _, _, _, _)
UpdateNeighborsLoop(j, index, solver, cells, size, band) ==
  IF j > 2 * kDimension THEN [err |-> "none", band |-> band]
  ELSE LET neighbor_index == FaceNeighbors(index)[j]
       IN IF Inside(neighbor_index, size) /\ ~frozen(Cell(cells, size, neighbor_index))
          THEN LET r == Solve(solver, neighbor_index, cells, size)
               IN IF r.err # "none" THEN [err |-> r.err, band |-> band]
                  ELSE UpdateNeighborsLoop(j + 1, index, solver, cells, size,
                                           Push(band, <<r.value, neighbor_index>>))
          ELSE UpdateNeighborsLoop(j + 1, index, solver, cells, size, band)

\* UpdateNeighbors that swallows the exception of Solve
UpdateNeighborsCatchesSolve(index, solver, cells, size, band) ==
  [err |-> "none", band |-> UpdateNeighborsLoop(1, index, solver, cells, size, band).band]

UpdateNeighbors(index, solver, cells, size, band) ==
  UpdateNeighborsLoop(1, index, solver, cells, size, band)

\* MarchIteration without the test that the popped cell is not frozen yet
MarchIterationNoFrozenCheck(entry, solver, cells, size, band) ==
  LET written == WithCell(cells, size, entry[2], entry[1])
      u == UpdateNeighbors(entry[2], solver, written, size, Remove(band, entry))
  IN [err |-> u.err, cells |-> written, band |-> u.band, wrote |-> TRUE]

\* one iteration of the loop of MarchNarrowBand that pops entry
MarchIteration(entry, solver, cells, size, band) ==
  LET rest == Remove(band, entry)
  IN IF ~frozen(Cell(cells, size, entry[2]))
     THEN LET written == WithCell(cells, size, entry[2], entry[1])
              u == UpdateNeighbors(entry[2], solver, written, size, rest)
          IN [err |-> u.err, cells |-> written, band |-> u.band, wrote |-> TRUE]
     ELSE [err |-> "none", cells |-> cells, band |-> rest, wrote |-> FALSE]

\* The loop of MarchNarrowBand run to its end from cells and band: the set of
\* its possible outcomes [err, cells], one for every order in which Pop may
\* hand out the entries.  A run of more than fuel iterations, or whose band
\* outgrows MaxBand, is not followed further ("capped").
RECURSIVE MarchOutcomes(_, _, _, _, _)
MarchOutcomes(solver, cells, size, band, fuel) ==
  IF band = EmptyBag THEN {[err |-> "none", cells |-> cells]}
  ELSE IF fuel = 0 \/ BagCardinality(band) > MaxBand
    THEN {[err |-> "capped", cells |-> cells]}
  ELSE UNION {IF r.err # "none" THEN {[err |-> r.err, cells |-> r.cells]}
              ELSE MarchOutcomes(solver, r.cells, size, r.band, fuel - 1) :
                r \in {MarchIteration(entry, solver, cells, size, band) :
                         entry \in PopCandidates(band)}}

\* UnsignedDistance after SetBoundaryCondition returned b
UnsignedDistanceOutcomesAfter(b, size, indices, solver) ==
  IF b.err # "none" THEN {[err |-> b.err, cells |-> b.cells]}
  ELSE UNION {IF n.err # "none" THEN {[err |-> n.err, cells |-> b.cells]}
              ELSE MarchOutcomes(solver, b.cells, size, n.band, MaxPops) :
                n \in {InitialUnsignedNarrowBand(indices, b.cells, size, solver)}}

\* UnsignedDistance as a whole: the outcomes of a call with the given lists
UnsignedDistanceOutcomes(size, indices, distances, solver) ==
  IF GridError(size, LinearSize(size)) # "none"
  THEN {[err |-> GridError(size, LinearSize(size)), cells |-> <<>>]}
  ELSE UNION {UnsignedDistanceOutcomesAfter(
                SetBoundaryConditionResult(indices, distances, 1, "unsigned",
                                           distance_buffer, size),
                size, indices, solver) :
                distance_buffer \in [0..(LinearSize(size) - 1) -> {kMax}]}

\* ------------------------------------------------------------------------
\* The set-up of the signed driver: connected components and dilation bands
\* ------------------------------------------------------------------------
\* the offsets in the order IndexIterator produces them (last axis fastest)
VertexNeighborOffsets ==
  <<<<-1, -1>>, <<-1, 0>>, <<-1, 1>>, <<0, -1>>,
    <<0, 1>>, <<1, -1>>, <<1, 0>>, <<1, 1>>>>

FaceNeighborOffsets == <<<<1, 0>>, <<-1, 0>>, <<0, 1>>, <<0, -1>>>>

Plus(index, offset) == [i \in 1..kDimension |-> index[i] + offset[i]]

AsSet(seq) == {seq[k] : k \in 1..Len(seq)}

\* the flood fill of one component: stack is neighbor_indices, j the next
\* neighbor offset of the index top taken from the stack
RECURSIVE FloodFill(_, _, _, _, _, _, _, _)
FloodFill(stack, top, j, component, labelled, foreground, size, offsets) ==
  IF j > Len(offsets) THEN
    IF stack = <<>> THEN [component |-> component, labelled |-> labelled]
    ELSE FloodFill(SubSeq(stack, 1, Len(stack) - 1), stack[Len(stack)], 1,
                   component, labelled, foreground, size, offsets)
  ELSE LET neighbor_index == Plus(top, offsets[j])
       IN IF /\ Inside(neighbor_index, size)
             /\ neighbor_index \in foreground \ labelled
          THEN FloodFill(Append(stack, neighbor_index), top, j + 1,
                         Append(component, neighbor_index),
                         labelled \cup {neighbor_index}, foreground, size, offsets)
          ELSE FloodFill(stack, top, j + 1, component, labelled, foreground,
                         size, offsets)

RECURSIVE ConnectedComponentsLoop(_, _, _, _, _, _)
ConnectedComponentsLoop(k, indices, size, offsets, labelled, components) ==
  IF k > Len(indices) THEN components
  ELSE IF indices[k] \in labelled
    THEN ConnectedComponentsLoop(k + 1, indices, size, offsets, labelled, components)
  ELSE LET r == FloodFill(<<>>, indices[k], 1, <<indices[k]>>,
                          labelled \cup {indices[k]}, AsSet(indices), size, offsets)
       IN ConnectedComponentsLoop(k + 1, indices, size, offsets, r.labelled,
                                  Append(components, r.component))

\* ConnectedComponents without the flood fill: a component for each index
ConnectedComponentsOneEach(indices, size, offsets) ==
  [k \in 1..Len(indices) |-> <<indices[k]>>]

\* the components of indices, each in the order the flood fill found its cells
ConnectedComponents(indices, size, offsets) ==
  ConnectedComponentsLoop(1, indices, size, offsets, {}, <<>>)

\* the cells of the padded grid that become kDilated, in the order found
RECURSIVE DilationIndices(_, _, _, _, _)
DilationIndices(k, j, indices, foreground, dilation_indices) ==
  IF k > Len(indices) THEN dilation_indices
  ELSE IF j > Len(VertexNeighborOffsets)
    THEN DilationIndices(k + 1, 1, indices, foreground, dilation_indices)
  ELSE LET neighbor_index ==
             Plus(Plus(indices[k], <<1, 1>>), VertexNeighborOffsets[j])
       IN IF neighbor_index \notin foreground \cup AsSet(dilation_indices)
          THEN DilationIndices(k, j + 1, indices, foreground,
                               Append(dilation_indices, neighbor_index))
          ELSE DilationIndices(k, j + 1, indices, foreground, dilation_indices)

\* a dilation component moved back to the grid, without the cells outside it
RECURSIVE Unpadded(_, _, _)
Unpadded(k, dilation_component, size) ==
  IF k > Len(dilation_component) THEN <<>>
  ELSE LET grid_index == Plus(dilation_component[k], <<-1, -1>>)
           rest == Unpadded(k + 1, dilation_component, size)
       IN IF Inside(grid_index, size) THEN <<grid_index>> \o rest ELSE rest

RECURSIVE NonEmptyBands(_, _, _)
NonEmptyBands(c, components, size) ==
  IF c > Len(components) THEN <<>>
  ELSE LET dilation_band == Unpadded(1, components[c], size)
           rest == NonEmptyBands(c + 1, components, size)
       IN IF dilation_band # <<>> THEN <<dilation_band>> \o rest ELSE rest

\* DilationBands that keeps the dilated cells outside the grid
DilationBandsKeepsOutside(indices, size) ==
  LET foreground == {Plus(indices[k], <<1, 1>>) : k \in 1..Len(indices)}
      components ==
        ConnectedComponents(DilationIndices(1, 1, indices, foreground, <<>>),
                            <<size[1] + 2, size[2] + 2>>, FaceNeighborOffsets)
  IN [c \in 1..Len(components) |->
        [k \in 1..Len(components[c]) |-> Plus(components[c][k], <<-1, -1>>)]]

\* DilationBands without the split of the dilated cells into connected
\* components: one band of all of them
DilationBandsOneBand(indices, size) ==
  LET foreground == {Plus(indices[k], <<1, 1>>) : k \in 1..Len(indices)}
  IN NonEmptyBands(1, <<DilationIndices(1, 1, indices, foreground, <<>>)>>, size)

DilationBands(indices, size) ==
  IF indices = <<>> THEN <<>>
  ELSE LET dilation_grid_size == <<size[1] + 2, size[2] + 2>>
           foreground == {Plus(indices[k], <<1, 1>>) : k \in 1..Len(indices)}
           dilation_indices == DilationIndices(1, 1, indices, foreground, <<>>)
       IN NonEmptyBands(1, ConnectedComponents(dilation_indices, dilation_grid_size,
                                               FaceNeighborOffsets), size)

Min(S) == CHOOSE x \in S : \A y \in S : x <= y
Max(S) == CHOOSE x \in S : \A y \in S : x >= y

\* bbox[i] = <<first, second>>, for non-empty indices
BoundingBox(indices) ==
  [i \in 1..kDimension |->
     <<Min({indices[k][i] : k \in 1..Len(indices)}),
       Max({indices[k][i] : k \in 1..Len(indices)})>>]

HyperVolume(bbox) == (bbox[1][2] - bbox[1][1] + 1) * (bbox[2][2] - bbox[2][1] + 1)

\* the orders std::sort may leave the bands in: hypervolume descending, bands
\* of equal hypervolume in any order
SortedBandOrders(dilation_bands) ==
  {order \in Permutations(1..Len(dilation_bands)) :
     \A a \in 1..Len(dilation_bands), b \in 1..Len(dilation_bands) :
       a < b => HyperVolume(BoundingBox(dilation_bands[order[a]])) >=
                  HyperVolume(BoundingBox(dilation_bands[order[b]]))}

\* narrow_band_grid.Cell(neighbor_index) == kFrozen, read without a test that
\* neighbor_index is inside the grid: an index outside it reads the cell its
\* linear index falls on, or memory before (garbage[1]) or after (garbage[2])
\* the buffer
ReadsFrozen(narrow_band_grid, size, neighbor_index, garbage) ==
  LET k == GridLinearIndex(neighbor_index, GridStrides(size))
  IN IF k < 0 THEN garbage[1]
     ELSE IF k >= LinearSize(size) THEN garbage[2]
     ELSE narrow_band_grid[k] = "kFrozen"

\* the two nested while loops: they end with frozen_neighbor_found iff one of
\* the reads, taken in order, finds kFrozen
FrozenNeighborFound(narrow_band_grid, size, dilation_index, garbage) ==
  \E i \in 1..kDimension : \E j \in 1..Len(kNeighborOffsets) :
    ReadsFrozen(narrow_band_grid, size,
                Offset(dilation_index, i, kNeighborOffsets[j]), garbage)

\* the neighbor indices the two nested while loops call
\* narrow_band_grid.Cell with: the face neighbors in order, up to the first
\* that reads kFrozen
NeighborsRead(narrow_band_grid, size, dilation_index, garbage) ==
  {FaceNeighbors(dilation_index)[j] : j \in
     {j \in 1..(2 * kDimension) :
        \A h \in 1..(j - 1) :
          ~ReadsFrozen(narrow_band_grid, size, FaceNeighbors(dilation_index)[h],
                       garbage)}}

\* the loop over one dilation band; st is [grid, inside, outside, reads],
\* reads the indices outside the grid that Cell was called with
RECURSIVE BandLoop(_, _, _, _, _, _)
BandLoop(k, dilation_band, outer, st, size, garbage) ==
  IF k > Len(dilation_band) THEN st
  ELSE LET dilation_index == dilation_band[k]
           lin == GridLinearIndex(dilation_index, GridStrides(size))
           reads == {n \in NeighborsRead(st.grid, size, dilation_index, garbage) :
                       ~Inside(n, size)}
       IN IF outer /\ st.grid[lin] # "kBackground"
          THEN BandLoop(k + 1, dilation_band, outer, st, size, garbage)
          ELSE IF FrozenNeighborFound(st.grid, size, dilation_index, garbage)
          THEN BandLoop(k + 1, dilation_band, outer,
                        [grid |-> [st.grid EXCEPT ![lin] = "kNarrowBand"],
                         inside |-> IF outer THEN st.inside
                                    ELSE Append(st.inside, dilation_index),
                         outside |-> IF outer THEN Append(st.outside, dilation_index)
                                     ELSE st.outside,
                         reads |-> st.reads \cup reads],
                        size, garbage)
          ELSE BandLoop(k + 1, dilation_band, outer,
                        [grid |-> st.grid, inside |-> st.inside,
                         outside |-> st.outside, reads |-> st.reads \cup reads],
                        size, garbage)

\* the outer band, then the inner bands, in the order order
RECURSIVE BandsLoop(_, _, _, _, _, _)
BandsLoop(k, order, dilation_bands, st, size, garbage) ==
  IF k > Len(dilation_bands) THEN st
  ELSE BandsLoop(k + 1, order, dilation_bands,
                 BandLoop(1, dilation_bands[order[k]], k = 1, st, size, garbage),
                 size, garbage)

\* the loop over the connected components: the set of its possible outcomes
\* [err, inside, outside, reads].  With no dilation band (assert compiled out) the
\* code reads the first element of the empty dilation_band_areas.
RECURSIVE ComponentsLoop(_, _, _, _, _)
ComponentsLoop(c, connected_components, st, size, garbage) ==
  IF c > Len(connected_components)
  THEN {[err |-> "none", inside |-> st.inside, outside |-> st.outside,
         reads |-> st.reads]}
  ELSE LET dilation_bands == DilationBands(connected_components[c], size)
       IN IF Len(dilation_bands) = 1
          THEN {[err |-> "open connected component",
                 inside |-> st.inside, outside |-> st.outside, reads |-> st.reads]}
          ELSE IF Len(dilation_bands) = 0
          THEN {[err |-> "segmentation fault",
                 inside |-> st.inside, outside |-> st.outside, reads |-> st.reads]}
               \cup ComponentsLoop(c + 1, connected_components, st, size, garbage)
          ELSE UNION {ComponentsLoop(c + 1, connected_components,
                                     BandsLoop(1, order, dilation_bands, st, size, garbage),
                                     size, garbage) :
                        order \in SortedBandOrders(dilation_bands)}

InitialSignedNarrowBands(frozen_indices, size, garbage) ==
  LET connected_components ==
        ConnectedComponents(frozen_indices, size, VertexNeighborOffsets)
      narrow_band_grid ==
        [k \in 0..(LinearSize(size) - 1) |->
           IF \E f \in AsSet(frozen_indices) :
                GridLinearIndex(f, GridStrides(size)) = k
           THEN "kFrozen" ELSE "kBackground"]
  IN ComponentsLoop(1, connected_components,
                    [grid |-> narrow_band_grid, inside |-> <<>>, outside |-> <<>>,
                     reads |-> {}],
                    size, garbage)

\* ------------------------------------------------------------------------
\* SignedDistance
\* ------------------------------------------------------------------------
\* the checks SignedDistance makes before it allocates distance_buffer, in
\* their order: the message of the first that fails, "none" if all pass
SignedDistanceChecks(size, dx, speed, indices, distances) ==
  IF HasZeroElement(size) THEN "invalid grid size"
  ELSE IF InvalidGridSpacing(dx) THEN "invalid grid spacing"
  ELSE IF ZeroOrNegativeOrNanSpeed(speed) THEN "invalid speed"
  ELSE IF Len(indices) # Len(distances) THEN "frozen indices/distances size mismatch"
  ELSE IF Len(indices) = 0 THEN "empty frozen indices"
  ELSE IF \E k \in 1..Len(indices) : ~Inside(indices[k], size)
    THEN "frozen index outside grid"
  ELSE IF \E a \in 1..Len(indices), b \in 1..Len(indices) :
            a # b /\ indices[a] = indices[b]
    THEN "duplicate frozen index"
  ELSE IF Len(indices) = LinearSize(size) THEN "whole grid frozen"
  ELSE IF \E k \in 1..Len(distances) : ~DistancePredicate("signed", distances[k])
    THEN "invalid frozen distance"
  ELSE "none"

\* EikonalSolverType(dx, speed)
EikonalSolver(dx, speed) ==
  [kind |-> "uniform", grid_spacing |-> dx, speed |-> speed,
   speed_grid_size |-> <<0, 0>>, speed_buffer |-> <<>>]

\* InitializeNarrowBand: one entry <<Solve(index), index>> for each index of
\* narrow_band_indices, in their order
RECURSIVE InitializeNarrowBandLoop(_, _, _, _, _, _)
InitializeNarrowBandLoop(k, narrow_band_indices, solver, cells, size, band) ==
  IF k > Len(narrow_band_indices) THEN [err |-> "none", band |-> band]
  ELSE LET r == Solve(solver, narrow_band_indices[k], cells, size)
       IN IF r.err # "none" THEN [err |-> r.err, band |-> band]
          ELSE InitializeNarrowBandLoop(k + 1, narrow_band_indices, solver, cells,
                                        size, Push(band, <<r.value, narrow_band_indices[k]>>))

InitializeNarrowBand(narrow_band_indices, solver, cells, size, band) ==
  InitializeNarrowBandLoop(1, narrow_band_indices, solver, cells, size, band)

\* the for_each between the two marches without the multiplication by -1
NegateFrozenKeepsSign(cells) == cells

\* the for_each between the two marches: every frozen cell changes its sign
NegateFrozen(cells) ==
  [k \in DOMAIN cells |-> IF Lt(cells[k], kMax) THEN Times(-1, cells[k]) ELSE cells[k]]

\* SignedDistance from the second call of InitializeNarrowBand on: the set of
\* its outcomes [err, cells]
SignedDistanceOutcomesOutside(narrow_band_indices, solver, cells, size) ==
  UNION {IF n.err # "none" THEN {[err |-> n.err, cells |-> cells]}
         ELSE MarchOutcomes(solver, cells, size, n.band, MaxPops) :
           n \in {InitializeNarrowBand(narrow_band_indices, solver, cells, size,
                                       EmptyBag)}}

\* SignedDistance from the first call of InitializeNarrowBand on; r is what
\* InitialSignedNarrowBands returned
SignedDistanceOutcomesInside(r, solver, cells, size) ==
  UNION {IF n.err # "none" THEN {[err |-> n.err, cells |-> cells]}
         ELSE UNION {IF m.err # "none" THEN {m}
                     ELSE SignedDistanceOutcomesOutside(
                            r.outside, solver, NegateFrozen(m.cells), size) :
                       m \in MarchOutcomes(solver, cells, size, n.band, MaxPops)} :
           n \in {InitializeNarrowBand(r.inside, solver, cells, size, EmptyBag)}}

\* SignedDistance after SetBoundaryCondition returned b
SignedDistanceOutcomesAfter(b, solver, indices, size) ==
  IF b.err # "none" THEN {[err |-> b.err, cells |-> b.cells]}
  ELSE UNION {IF r.err # "none" THEN {[err |-> r.err, cells |-> b.cells]}
              ELSE SignedDistanceOutcomesInside(r, solver, b.cells, size) :
                r \in UNION {InitialSignedNarrowBands(indices, size, garbage) :
                               garbage \in BOOLEAN \X BOOLEAN}}

\* SignedDistance as a whole: the outcomes of a call with the given arguments
SignedDistanceOutcomes(size, dx, speed, indices, distances) ==
  IF SignedDistanceChecks(size, dx, speed, indices, distances) # "none"
  THEN {[err |-> SignedDistanceChecks(size, dx, speed, indices, distances),
         cells |-> <<>>]}
  ELSE UNION {SignedDistanceOutcomesAfter(
                SetBoundaryConditionResult(indices, distances, -1, "signed",
                                           buffer, size),
                EikonalSolver(dx, speed), indices, size) :
                buffer \in [0..(LinearSize(size) - 1) -> {kMax}]}

\* ------------------------------------------------------------------------
\* Inputs
\* ------------------------------------------------------------------------
\* a distance whose square exceeds numeric_limits<T>::max()
BigDistance == (ISqrt(kMaxReal) + 1) * Scale

\* seed distances the unsigned driver accepts: 0, 3 and a large finite one
SeedDistances == {0, 3 * Scale, BigDistance}

GridSizes == {<<2, 1>>, <<3, 1>>, <<4, 2>>, <<0, 2>>}

GridSpacings == {<<1, 1>>, <<0, 1>>, <<1, kNaN>>}

Speeds == {1, 0, -1, kNaN}

NoGridSize == <<0, 0>>

UniformInputs ==
  {[kind |-> "uniform", grid_spacing |-> h, speed |-> s,
    speed_grid_size |-> NoGridSize, speed_buffer |-> <<>>] :
     h \in GridSpacings, s \in Speeds}

\* buffers of n speeds, 0-based
AllOne(n) == [k \in 0..(n - 1) |-> 1]
Mixed(n) == [k \in 0..(n - 1) |-> IF k % 2 = 0 THEN 1 ELSE 2]
ZeroAtEnd(n) == [k \in 0..(n - 1) |-> IF k = n - 1 THEN 0 ELSE 1]
NegativeAtStart(n) == [k \in 0..(n - 1) |-> IF k = 0 THEN -1 ELSE 1]
NanInside(n) == [k \in 0..(n - 1) |-> IF k = 3 THEN kNaN ELSE 2]

VaryingInputs ==
  {[kind |-> "varying", grid_spacing |-> <<1, 2>>, speed |-> 0,
    speed_grid_size |-> sb[1], speed_buffer |-> sb[2]] :
     sb \in {<<<<4, 2>>, Mixed(8)>>,
             <<<<3, 1>>, AllOne(3)>>,
             <<<<4, 2>>, ZeroAtEnd(8)>>,
             <<<<4, 2>>, NegativeAtStart(8)>>,
             <<<<4, 2>>, NanInside(8)>>,
             <<<<4, 2>>, AllOne(5)>>,
             <<<<4, 2>>, NegativeAtStart(5)>>,
             <<<<0, 2>>, AllOne(0)>>}}
  \cup
  {[kind |-> "varying", grid_spacing |-> <<0, 1>>, speed |-> 0,
    speed_grid_size |-> <<4, 2>>, speed_buffer |-> ZeroAtEnd(8)]}

SolverInputs == UniformInputs \cup VaryingInputs

\* seeds offered to a grid: its cells with an accepted distance, an index
\* outside the grid, and a negative distance
SeedChoices(size) ==
  (Indices(size) \X SeedDistances) \cup {<<<<-1, 0>>, 0>>, <<<<0, 0>>, -Scale>>}

SeedLists(size) ==
  UNION {[1..n -> SeedChoices(size)] : n \in 0..MaxSeeds}

\* the cells of S as a list, by linear index, ascending or descending
RECURSIVE Ordered(_, _, _)
Ordered(S, size, ascending) ==
  IF S = {} THEN <<>>
  ELSE LET Key(x) == GridLinearIndex(x, GridStrides(size))
           first == CHOOSE x \in S : \A y \in S :
                      IF ascending THEN Key(x) <= Key(y) ELSE Key(x) >= Key(y)
       IN <<first>> \o Ordered(S \ {first}, size, ascending)

SignedGridSizes == {<<1, 1>>, <<3, 3>>, <<5, 3>>}

\* seed lists handed to InitialSignedNarrowBands: distinct cells of the grid
SignedSeedLists(size) ==
  {Ordered(S, size, ascending) :
     S \in {T \in SUBSET Indices(size) :
              Cardinality(T) >= 1 /\ Cardinality(T) <= MaxSignedSeeds},
     ascending \in BOOLEAN}

\* one closed component inside another: the four cells around the centre of
\* a 7x7 grid, and a ring of sixteen cells around them that no vertex
\* neighbor connects to them; either component first in the list
NestedGridSize == <<7, 7>>

NestedSeedLists ==
  LET inner == <<<<2, 3>>, <<4, 3>>, <<3, 2>>, <<3, 4>>>>
      ring == <<<<6, 2>>, <<6, 3>>, <<6, 4>>, <<0, 2>>, <<0, 3>>, <<0, 4>>,
                <<2, 6>>, <<3, 6>>, <<4, 6>>, <<2, 0>>, <<3, 0>>, <<4, 0>>,
                <<5, 5>>, <<5, 1>>, <<1, 5>>, <<1, 1>>>>
  IN {inner \o ring, ring \o inner}

\* seed lists handed to SignedDistance: the lists of InitialSignedNarrowBands,
\* the empty list, an index outside the grid and a cell named twice
SignedDistanceSeedLists(size) ==
  SignedSeedLists(size)
    \cup {<<>>, <<<<0, 0>>, <<-1, 0>>>>, <<<<0, 0>>, <<1, 0>>, <<0, 0>>>>}

\* seed distances the signed driver is offered: 0, +-1/2, 3, NaN and
\* +-numeric_limits<T>::max()
SignedSeedDistances == {0, 1, -1, 3 * Scale, kNaN, kMax, -kMax}

\* grid_size, dx, speed and the surplus of frozen_distances over
\* frozen_indices of a call of SignedDistance: a call that passes the checks
\* of these, and one call for each check of these that fails
SignedDistanceShapes ==
  {<<<<3, 3>>, <<1, 1>>, 1, 0>>,
   <<<<0, 2>>, <<1, 1>>, 1, 0>>,
   <<<<3, 3>>, <<0, 1>>, 1, 0>>,
   <<<<3, 3>>, <<1, 1>>, kNaN, 0>>,
   <<<<3, 3>>, <<1, 1>>, 1, 1>>}

\* the arguments of a call of SignedDistance: every seed at the same distance d
SignedDistanceInputs ==
  {[grid_size |-> shape[1], dx |-> shape[2], speed |-> shape[3],
    frozen_indices |-> list,
    frozen_distances |-> [k \in 1..(Len(list) + shape[4]) |-> d]] :
     shape \in SignedDistanceShapes,
     list \in SignedDistanceSeedLists(<<3, 3>>),
     d \in SignedSeedDistances}

IndicesOf(list) == [k \in 1..Len(list) |-> list[k][1]]
DistancesOf(list) == [k \in 1..Len(list) |-> list[k][2]]

\* ------------------------------------------------------------------------
\* The unsigned driver as a state machine
\* ------------------------------------------------------------------------
VARIABLES
  pc,                \* position in the caller / in UnsignedDistance
  solver,            \* the constructed eikonal_solver
  grid_size,
  frozen_indices,    \* the seed lists, kept while UnsignedDistance reads them
  frozen_distances,
  seeds,             \* the set of pairs <<index, distance>> of the seed lists
  distance_buffer,   \* the local distance_buffer, <<>> before it is allocated
  allocated,         \* whether distance_buffer has been constructed
  narrow_band,
  err,               \* the message of the exception thrown, "none" if none
  result,            \* the buffer returned to the caller, <<>> if none
  last_frozen,       \* <<d>> for the distance d at which the marching loop
                     \* froze a cell last, <<>> if it froze none
  inside_narrow_band_indices,   \* the results of InitialSignedNarrowBands
  outside_narrow_band_indices,
  reads_outside,     \* the indices outside the grid that InitialSignedNarrowBands
                     \* called narrow_band_grid.Cell with
  pops,              \* the number of iterations of the marching loop so far
  freezes,           \* the number of them that froze a cell
  popped,            \* <<entry>> for the entry that a Pop of a store used on
                     \* its own returned last, <<>> before the first
  solved,            \* the bag of the indices InitialUnsignedNarrowBand
                     \* called Solve with
  solve_index,       \* the arguments and locals of a function called on its own:
  q,                 \* SolveEikonal and HighAccuracySolveEikonal,
  axis,              \* the i of their loop over the axes,
  connected_components,   \* the result of ConnectedComponents,
  dilation_bands,    \* the result of DilationBands
  multiplier         \* the multiplier argument of SetBoundaryCondition

vars == <<pc, solver, grid_size, frozen_indices, frozen_distances, seeds,
          distance_buffer, allocated, narrow_band, err, result, last_frozen,
          inside_narrow_band_indices, outside_narrow_band_indices,
          reads_outside, pops, freezes, popped, solved, solve_index, q, axis,
          connected_components, dilation_bands, multiplier>>

march_vars == <<pops, freezes, popped>>

local_vars ==
  <<solved, solve_index, q, axis, connected_components, dilation_bands, multiplier>>

signed_vars ==
  <<inside_narrow_band_indices, outside_narrow_band_indices, reads_outside>>

NoSolver == [kind |-> "none"]

Init ==
  /\ pc = "idle"
  /\ solver = NoSolver
  /\ grid_size = NoGridSize
  /\ frozen_indices = <<>>
  /\ frozen_distances = <<>>
  /\ seeds = {}
  /\ distance_buffer = <<>>
  /\ allocated = FALSE
  /\ narrow_band = EmptyBag
  /\ err = "none"
  /\ result = <<>>
  /\ last_frozen = <<>>
  /\ inside_narrow_band_indices = <<>>
  /\ outside_narrow_band_indices = <<>>
  /\ reads_outside = {}
  /\ pops = 0
  /\ freezes = 0
  /\ popped = <<>>
  /\ solved = EmptyBag
  /\ solve_index = <<>>
  /\ q = <<>>
  /\ axis = 0
  /\ connected_components = <<>>
  /\ dilation_bands = <<>>
  /\ multiplier = 1

\* the caller constructs the solver
ConstructSolver ==
  /\ pc = "idle"
  /\ \E in \in SolverInputs :
       /\ solver' = in
       /\ IF SolverError(in) = "none"
          THEN pc' = "constructed" /\ err' = "none"
          ELSE pc' = "failed" /\ err' = SolverError(in)
  /\ UNCHANGED <<grid_size, frozen_indices, frozen_distances, seeds,
                 distance_buffer, allocated, narrow_band, result, last_frozen>>
  /\ UNCHANGED signed_vars
  /\ UNCHANGED march_vars
  /\ UNCHANGED local_vars

\* UnsignedDistance up to the construction of distance_grid
UnsignedDistance ==
  /\ pc = "constructed"
  /\ \E size \in GridSizes : \E list \in SeedLists(size) : \E extra \in {0, 1} :
       /\ extra = 1 => \A k \in 1..Len(list) : list[k][2] = 0
       /\ grid_size' = size
       /\ frozen_indices' = IndicesOf(list)
       /\ frozen_distances' =
            IF extra = 1 THEN Append(DistancesOf(list), 0) ELSE DistancesOf(list)
       /\ seeds' = {list[k] : k \in 1..Len(list)}
       /\ distance_buffer' = [k \in 0..(LinearSize(size) - 1) |-> kMax]
       /\ allocated' = TRUE
       /\ IF GridError(size, LinearSize(size)) = "none"
          THEN pc' = "boundary" /\ err' = "none"
          ELSE pc' = "failed" /\ err' = GridError(size, LinearSize(size))
  /\ UNCHANGED <<solver, narrow_band, result, last_frozen>>
  /\ UNCHANGED signed_vars
  /\ UNCHANGED march_vars
  /\ UNCHANGED local_vars

SetBoundaryCondition ==
  /\ pc = "boundary"
  /\ LET r == SetBoundaryConditionResult(frozen_indices, frozen_distances, multiplier,
                                         "unsigned", distance_buffer, grid_size)
     IN /\ distance_buffer' = r.cells
        /\ err' = r.err
        /\ pc' = IF r.err = "none" THEN "band" ELSE "failed"
  /\ UNCHANGED <<solver, grid_size, frozen_indices, frozen_distances, seeds,
                 allocated, narrow_band, result, last_frozen>>
  /\ UNCHANGED signed_vars
  /\ UNCHANGED march_vars
  /\ UNCHANGED local_vars

InitialNarrowBand ==
  /\ pc = "band"
  /\ LET r == InitialUnsignedNarrowBand(frozen_indices, distance_buffer,
                                        grid_size, solver)
     IN /\ narrow_band' = r.band
        /\ solved' = r.solved
        /\ err' = r.err
        /\ pc' = IF r.err = "none" THEN "march" ELSE "failed"
  /\ frozen_indices' = <<>>
  /\ frozen_distances' = <<>>
  /\ UNCHANGED <<solver, grid_size, seeds, distance_buffer, allocated, result,
                 last_frozen>>
  /\ UNCHANGED signed_vars
  /\ UNCHANGED march_vars
  /\ UNCHANGED <<solve_index, q, axis, connected_components, dilation_bands,
                 multiplier>>

\* one iteration of the loop of MarchNarrowBand; a run whose band outgrows
\* MaxBand, or of more than MaxPops iterations, is not followed further
MarchNarrowBand ==
  /\ pc = "march"
  /\ narrow_band # EmptyBag
  /\ \E entry \in PopCandidates(narrow_band) :
       LET r == MarchIteration(entry, solver, distance_buffer, grid_size, narrow_band)
       IN /\ distance_buffer' = r.cells
          /\ narrow_band' = r.band
          /\ err' = r.err
          /\ last_frozen' = IF r.wrote /\ frozen(entry[1]) THEN <<entry[1]>>
                            ELSE last_frozen
          /\ pops' = pops + 1
          /\ freezes' = IF r.wrote /\ frozen(entry[1]) THEN freezes + 1 ELSE freezes
          /\ UNCHANGED popped
          /\ pc' = IF r.err # "none" THEN "failed"
                   ELSE IF BagCardinality(r.band) > MaxBand THEN "capped"
                   ELSE IF pops + 1 >= MaxPops /\ r.band # EmptyBag THEN "capped"
                   ELSE "march"
  /\ UNCHANGED <<solver, grid_size, frozen_indices, frozen_distances, seeds,
                 allocated, result>>
  /\ UNCHANGED signed_vars
  /\ UNCHANGED local_vars

\* the loop ends and UnsignedDistance returns distance_buffer
Return ==
  /\ pc = "march"
  /\ narrow_band = EmptyBag
  /\ result' = distance_buffer
  /\ pc' = "done"
  /\ UNCHANGED <<solver, grid_size, frozen_indices, frozen_distances, seeds,
                 distance_buffer, allocated, narrow_band, err, last_frozen>>
  /\ UNCHANGED signed_vars
  /\ UNCHANGED march_vars
  /\ UNCHANGED local_vars

Next ==
  \/ ConstructSolver
  \/ UnsignedDistance
  \/ SetBoundaryCondition
  \/ InitialNarrowBand
  \/ MarchNarrowBand
  \/ Return

Spec == Init /\ [][Next]_vars

\* ------------------------------------------------------------------------
\* Properties of the unsigned driver
\* ------------------------------------------------------------------------
LinearIndexOf(index) == GridLinearIndex(index, GridStrides(grid_size))

Adjacent(a, b) == \E j \in 1..(2 * kDimension) : FaceNeighbors(a)[j] = b

\* C1: when UnsignedDistance returns, every cell of the returned buffer is
\* frozen (strictly below numeric_limits<T>::max()).
C1_ReturnedBufferFrozen ==
  pc = "done" => \A k \in DOMAIN result : frozen(result[k])

\* C2: when UnsignedDistance returns, the cell of every seed (i, d) holds d.
C2_SeedCellsKept ==
  pc = "done" => \A sd \in seeds : result[LinearIndexOf(sd[1])] = sd[2]

\* a return after marching from two face-adjacent seeds
C2_Witness ==
  /\ pc = "done"
  /\ last_frozen # <<>>
  /\ \E a \in seeds, b \in seeds : Adjacent(a[1], b[1])
  /\ \A sd \in seeds : result[LinearIndexOf(sd[1])] = sd[2]

\* C3: a step of the marching loop leaves every frozen cell as it is.
C3_FrozenNeverOverwritten ==
  [][pc = "march" =>
       \A k \in DOMAIN distance_buffer :
         frozen(distance_buffer[k]) => distance_buffer'[k] = distance_buffer[k]]_vars

\* the marcher has frozen a cell and the band still holds an entry for a
\* frozen cell, which the next pops have to skip
C3_Witness ==
  /\ pc = "march"
  /\ last_frozen # <<>>
  /\ \E e \in BagToSet(narrow_band) :
       /\ frozen(distance_buffer[LinearIndexOf(e[2])])
       /\ e[1] # distance_buffer[LinearIndexOf(e[2])]

\* C4: the distances at which the marching loop freezes cells are
\* non-decreasing.
C4_FreezeOrderMonotone ==
  [][(pc = "march" /\ last_frozen # <<>> /\ last_frozen' # <<>>)
       => Le(last_frozen[1], last_frozen'[1])]_vars

FrozenCells(cells) == {k \in DOMAIN cells : frozen(cells[k])}

\* C5: MarchNarrowBand terminates because every pop makes progress: it
\* freezes a cell that was not frozen, or else it freezes none and leaves the
\* narrow band with fewer entries.
C5_EveryPopProgresses ==
  [][(pc = "march" /\ narrow_band # EmptyBag) =>
       \/ Cardinality(FrozenCells(distance_buffer')) >
            Cardinality(FrozenCells(distance_buffer))
       \/ /\ FrozenCells(distance_buffer') = FrozenCells(distance_buffer)
          /\ BagCardinality(narrow_band') < BagCardinality(narrow_band)]_vars

\* the conditions of C6 on the arguments of SetBoundaryCondition
C6_Conditions ==
  [e \in {"empty frozen indices", "frozen indices/distances size mismatch",
          "frozen index outside grid", "duplicate frozen index",
          "invalid frozen distance", "whole grid frozen"} |->
     CASE e = "empty frozen indices" -> Len(frozen_indices) = 0
       [] e = "frozen indices/distances size mismatch" ->
            Len(frozen_indices) # Len(frozen_distances)
       [] e = "frozen index outside grid" ->
            \E k \in 1..Len(frozen_indices) :
              \E i \in 1..kDimension :
                frozen_indices[k][i] < 0 \/ frozen_indices[k][i] >= grid_size[i]
       [] e = "duplicate frozen index" ->
            \E j \in 1..Len(frozen_indices), k \in 1..Len(frozen_indices) :
              j # k /\ frozen_indices[j] = frozen_indices[k]
       [] e = "invalid frozen distance" ->
            \E k \in 1..Len(frozen_distances) :
              ~(frozen_distances[k] >= 0 /\ frozen_distances[k] < kMax)
       [] e = "whole grid frozen" ->
            Indices(grid_size) \subseteq {frozen_indices[k] : k \in 1..Len(frozen_indices)}]

\* SetBoundaryCondition has returned or thrown
C6_AfterSetBoundaryCondition ==
  pc = "band" \/ (pc = "failed" /\ err \in DOMAIN C6_Conditions)

QuadraticErrors == {"negative discriminant", "negative distance"}

\* after the write to cell x, the j-th face neighbor of x is the first one
\* for which Solve throws, and it throws a failure of the quadratic
C7_QuadraticFailsAt(x, j, cells) ==
  LET Throws(i) ==
        LET y == FaceNeighbors(x)[i]
        IN /\ Inside(y, grid_size)
           /\ ~frozen(Cell(cells, grid_size, y))
           /\ Solve(solver, y, cells, grid_size).err # "none"
  IN /\ Throws(j)
     /\ \A i \in 1..(j - 1) : ~Throws(i)
     /\ Solve(solver, FaceNeighbors(x)[j], cells, grid_size).err \in QuadraticErrors

\* a step of the marching loop writes cell x and the quadratic of its j-th
\* face neighbor fails
C7_FailingUpdate(x, j) ==
  /\ pc = "march"
  /\ distance_buffer'[LinearIndexOf(x)] # distance_buffer[LinearIndexOf(x)]
  /\ C7_QuadraticFailsAt(x, j, distance_buffer')

C8_PreconditionErrors == DOMAIN C6_Conditions \cup {"invalid grid size"}

\* UnsignedDistance was called and threw a precondition error
C8_PreconditionFailure ==
  /\ pc = "failed"
  /\ grid_size # NoGridSize
  /\ err \in C8_PreconditionErrors

\* C8 as stated: a precondition failure of the unsigned driver is reported
\* before the distance grid is allocated and before any cell is written.
C8_FailureBeforeAllocation ==
  C8_PreconditionFailure =>
    /\ ~allocated
    /\ \A k \in DOMAIN distance_buffer : distance_buffer[k] = kMax

\* C8, amended: a precondition failure of the unsigned driver is reported
\* after distance_buffer is allocated, before the narrow band is built and
\* before any marching; the cells written by then hold seeds of the list, and
\* no buffer is returned.
C8_FailureBeforeNarrowBand ==
  C8_PreconditionFailure =>
    /\ allocated
    /\ narrow_band = EmptyBag
    /\ last_frozen = <<>>
    /\ result = <<>>
    /\ \A k \in DOMAIN distance_buffer :
         distance_buffer[k] # kMax =>
           \E j \in 1..Len(frozen_indices) :
             /\ j <= Len(frozen_distances)
             /\ Inside(frozen_indices[j], grid_size)
             /\ LinearIndexOf(frozen_indices[j]) = k
             /\ distance_buffer[k] = frozen_distances[j]

\* a seed has been written before a later seed was rejected
C8_Witness ==
  /\ pc = "failed"
  /\ err = "frozen index outside grid"
  /\ \E k \in DOMAIN distance_buffer : distance_buffer[k] \notin {0, kMax}

C9_BadSpeedValue(s) == s = kNaN \/ s <= 0

\* the solver handed to the constructor has a zero, negative or NaN speed
C9_HasBadSpeed ==
  /\ solver # NoSolver
  /\ IF solver.kind = "uniform" THEN C9_BadSpeedValue(solver.speed)
     ELSE \E k \in DOMAIN solver.speed_buffer : C9_BadSpeedValue(solver.speed_buffer[k])

C9_BadGridSpacing ==
  \E i \in 1..kDimension :
    solver.grid_spacing[i] = kNaN \/ solver.grid_spacing[i] <= 0

C9_BadSpeedGrid ==
  /\ solver.kind = "varying"
  /\ \/ \E i \in 1..kDimension : solver.speed_grid_size[i] = 0
     \/ LinearSize(solver.speed_grid_size) # Cardinality(DOMAIN solver.speed_buffer)

\* C9 as stated: a zero, negative or NaN speed is rejected with the
\* invalid-speed error when the solver is constructed.
C9_BadSpeedIsInvalidSpeedError ==
  C9_HasBadSpeed => (pc = "failed" /\ err = "invalid speed")

\* C9, amended: a zero, negative or NaN speed makes the construction of the
\* solver fail, before anything is allocated, pushed or frozen; the error is
\* the invalid-speed error unless the grid spacing or the size of the speed
\* grid is invalid, which is checked first and reported instead.
C9_BadSpeedFailsConstruction ==
  C9_HasBadSpeed =>
    /\ pc = "failed"
    /\ ~allocated
    /\ narrow_band = EmptyBag
    /\ last_frozen = <<>>
    /\ IF C9_BadGridSpacing THEN err = "invalid grid spacing"
       ELSE IF C9_BadSpeedGrid
         THEN err \in {"invalid grid size", "grid size does not match cell buffer size"}
       ELSE err = "invalid speed"

\* a varying speed solver with a bad cell and nothing else wrong
C9_Witness ==
  /\ C9_HasBadSpeed
  /\ solver.kind = "varying"
  /\ ~C9_BadGridSpacing
  /\ ~C9_BadSpeedGrid
  /\ err = "invalid speed"

\* the seed lists that hold the pairs of seeds, each once, in any order
SeedOrders ==
  {list \in [1..Cardinality(seeds) -> seeds] :
     \A a \in 1..Cardinality(seeds), b \in 1..Cardinality(seeds) :
       a # b => list[a] # list[b]}

\* C11: a call that returns, and any call with the same seeds in another
\* order that returns, return the same buffer, whichever of the entries that
\* Pop may hand out first it hands out.
C11_SeedOrderInvariant ==
  pc = "done" =>
    \A list \in SeedOrders :
      \A r \in UnsignedDistanceOutcomes(grid_size, IndicesOf(list),
                                         DistancesOf(list), solver) :
        r.err = "none" => r.cells = result

\* C15: the marching loop executes at most as many iterations (pops) as the
\* distance grid has cells.
C15_AtMostGridPops ==
  pops <= LinearSize(grid_size)

\* C15 for the iterations that freeze a cell: there are at most as many as
\* the grid has cells that are not seeds.
C15_AtMostGridFreezes ==
  /\ freezes <= pops
  /\ freezes > 0 => freezes + Cardinality(seeds) <= LinearSize(grid_size)

\* a run without a NaN that popped more entries than the grid has cells and
\* froze every cell that is not a seed
C15_Witness ==
  /\ pc = "done"
  /\ pops > LinearSize(grid_size)
  /\ freezes + Cardinality(seeds) = LinearSize(grid_size)
  /\ \A k \in DOMAIN result : frozen(result[k])

\* the entries a step pushed: those the narrow band holds more often after it
Pushed ==
  {e \in BagToSet(narrow_band') :
     CopiesIn(e, narrow_band') > CopiesIn(e, narrow_band)}

\* C16: every entry pushed, by InitialUnsignedNarrowBand and by
\* UpdateNeighbors, is for a cell that is not frozen when it is pushed.
C16_PushedCellsNotFrozen ==
  [][(pc = "band" \/ pc = "march") =>
       \A e \in Pushed : ~frozen(distance_buffer'[LinearIndexOf(e[2])])]_vars

\* the face neighbors of x inside the grid that are frozen in cells
FrozenNeighbors(x, cells) ==
  {n \in Indices(grid_size) : Adjacent(x, n) /\ frozen(cells[LinearIndexOf(n)])}

\* cells with every cell outside S back at numeric_limits<T>::max()
OnlyFrozen(S, cells) ==
  [k \in DOMAIN cells |->
     IF \E n \in S : LinearIndexOf(n) = k THEN cells[k] ELSE kMax]

\* x has a frozen face neighbor in cells, and d is what Solve returns for x
\* with some of the frozen face neighbors of x frozen, at least one
C18_SolvedFromFrozenNeighbor(x, d, cells) ==
  \E S \in SUBSET FrozenNeighbors(x, cells) :
    /\ S # {}
    /\ Solve(solver, x, OnlyFrozen(S, cells), grid_size) = Returned(d)

\* C18: when a step of the marching loop freezes a cell x, a face neighbor of
\* x is frozen already and the value written to x is a value Solve returns
\* for x in a state in which that neighbor is frozen.
C18_FrozenFromFrozenNeighbor ==
  [][pc = "march" =>
       \A x \in Indices(grid_size) :
         (/\ ~frozen(distance_buffer[LinearIndexOf(x)])
          /\ frozen(distance_buffer'[LinearIndexOf(x)]))
           => C18_SolvedFromFrozenNeighbor(x, distance_buffer'[LinearIndexOf(x)],
                                           distance_buffer)]_vars

\* the marching loop froze a cell lying between two cells frozen before it
C18_Witness ==
  /\ pc = "march"
  /\ freezes > 0
  /\ \E x \in Indices(grid_size) :
       /\ \A sd \in seeds : sd[1] # x
       /\ frozen(distance_buffer[LinearIndexOf(x)])
       /\ Cardinality(FrozenNeighbors(x, distance_buffer)) >= 2

\* C20: a step of the marching loop that freezes a cell x writes the smallest
\* of the distances pushed for x, so that no entry for x left in the narrow
\* band is smaller; and a step that can only pop entries for frozen cells
\* changes no cell and pushes no entry.
C20_SmallestEntryTakesEffect ==
  [][pc = "march" =>
       /\ \A x \in Indices(grid_size) :
            (/\ ~frozen(distance_buffer[LinearIndexOf(x)])
             /\ frozen(distance_buffer'[LinearIndexOf(x)]))
              => \A e \in BagToSet(narrow_band) :
                   e[2] = x => ~Lt(e[1], distance_buffer'[LinearIndexOf(x)])
       /\ (\A e \in BagToSet(narrow_band) : frozen(distance_buffer[LinearIndexOf(e[2])]))
            => distance_buffer' = distance_buffer /\ Pushed = {}]_vars

\* the cells of the grid that are a face neighbor of a cell of the list
SeedNeighbors(indices) ==
  {n \in Indices(grid_size) : \E k \in 1..Len(indices) : Adjacent(indices[k], n)}

\* the number of entries of band for the cell n
EntriesFor(band, n) ==
  BagCardinality([e \in {f \in BagToSet(band) : f[2] = n} |-> CopiesIn(e, band)])

\* C23: InitialUnsignedNarrowBand calls the solver at most once for a cell;
\* when it returns, the band holds exactly one entry for every cell of the
\* grid that is a face neighbor of a seed cell, the solver was called exactly
\* once for each of them, there is no other entry or call, and the band is
\* not empty.
C23_NeighborsEnqueuedOnce ==
  [][pc = "band" =>
       /\ \A n \in Indices(grid_size) : CopiesIn(n, solved') <= 1
       /\ pc' = "march" =>
            /\ \A n \in SeedNeighbors(frozen_indices) :
                 EntriesFor(narrow_band', n) = 1 /\ CopiesIn(n, solved') = 1
            /\ \A e \in BagToSet(narrow_band') : e[2] \in SeedNeighbors(frozen_indices)
            /\ BagToSet(solved') = SeedNeighbors(frozen_indices)
            /\ narrow_band' # EmptyBag]_vars

\* InitialUnsignedNarrowBand has returned for two seeds that have a face
\* neighbor in common
C23_Witness ==
  /\ pc = "march"
  /\ pops = 0
  /\ \E n \in Indices(grid_size) :
       /\ Cardinality({sd \in seeds : Adjacent(sd[1], n)}) = 2
       /\ EntriesFor(narrow_band, n) = 1
       /\ CopiesIn(n, solved) = 1

\* ------------------------------------------------------------------------
\* The set-up of the signed driver as a state machine
\* ------------------------------------------------------------------------
InitSigned ==
  /\ pc = "signed"
  /\ solver = NoSolver
  /\ \/ /\ grid_size \in SignedGridSizes
        /\ frozen_indices \in SignedSeedLists(grid_size)
     \/ /\ grid_size = NestedGridSize
        /\ frozen_indices \in NestedSeedLists
  /\ frozen_distances = <<>>
  /\ seeds = {}
  /\ distance_buffer = <<>>
  /\ allocated = FALSE
  /\ narrow_band = EmptyBag
  /\ err = "none"
  /\ result = <<>>
  /\ last_frozen = <<>>
  /\ inside_narrow_band_indices = <<>>
  /\ outside_narrow_band_indices = <<>>
  /\ reads_outside = {}
  /\ pops = 0
  /\ freezes = 0
  /\ popped = <<>>
  /\ solved = EmptyBag
  /\ solve_index = <<>>
  /\ q = <<>>
  /\ axis = 0
  /\ connected_components = <<>>
  /\ dilation_bands = <<>>
  /\ multiplier = 1

InitialSignedNarrowBandsCall ==
  /\ pc = "signed"
  /\ \E garbage \in BOOLEAN \X BOOLEAN :
       \E r \in InitialSignedNarrowBands(frozen_indices, grid_size, garbage) :
         /\ err' = r.err
         /\ inside_narrow_band_indices' = r.inside
         /\ outside_narrow_band_indices' = r.outside
         /\ reads_outside' = r.reads
         /\ pc' = IF r.err = "none" THEN "signed done" ELSE "failed"
  /\ UNCHANGED <<solver, grid_size, frozen_indices, frozen_distances, seeds,
                 distance_buffer, allocated, narrow_band, result, last_frozen>>
  /\ UNCHANGED march_vars
  /\ UNCHANGED local_vars

NextSigned == InitialSignedNarrowBandsCall

SpecSigned == InitSigned /\ [][NextSigned]_vars

\* ------------------------------------------------------------------------
\* Properties of the signed set-up
\* ------------------------------------------------------------------------
C10_Adjacent(a, b, vertex) ==
  /\ a # b
  /\ \A i \in 1..kDimension : Abs(a[i] - b[i]) <= 1
  /\ vertex \/ \E i \in 1..kDimension : a[i] = b[i]

\* the cells of S connected to a cell of T
RECURSIVE C10_Closure(_, _, _)
C10_Closure(T, S, vertex) ==
  LET more == T \cup {x \in S : \E y \in T : C10_Adjacent(x, y, vertex)}
  IN IF more = T THEN T ELSE C10_Closure(more, S, vertex)

C10_Classes(S, vertex) == {C10_Closure({x}, S, vertex) : x \in S}

\* the vertex-connected components of the seed cells
C10_Components == C10_Classes(AsSet(frozen_indices), TRUE)

\* the dilation bands of component C: the face-connected parts of its shell
\* in the padded grid, cut down to the grid, the empty ones left out
C10_DilationBands(C) ==
  LET padded == (-1..grid_size[1]) \X (-1..grid_size[2])
      shell == {x \in padded \ C : \E y \in C : C10_Adjacent(x, y, TRUE)}
  IN {K \cap Indices(grid_size) : K \in C10_Classes(shell, FALSE)} \ {{}}

C10_Returned == pc \in {"signed done", "failed"}

C10_OpenComponentErrorUnlessCovered ==
  (C10_Returned /\ AsSet(frozen_indices) # Indices(grid_size)) =>
    /\ (err = "open connected component") <=>
         (\E C \in C10_Components : Cardinality(C10_DilationBands(C)) = 1)
    /\ Len(frozen_indices) = 1 => err = "open connected component"

\* a closed component is processed and a later, open one raises the error
C10_Witness ==
  /\ pc = "failed"
  /\ err = "open connected component"
  /\ \E C \in C10_Components : Cardinality(C10_DilationBands(C)) > 1

\* a closed component alone: the call returns both narrow bands
C10_WitnessClosed ==
  /\ pc = "signed done"
  /\ inside_narrow_band_indices # <<>>
  /\ outside_narrow_band_indices # <<>>

\* C17: InitialSignedNarrowBands calls narrow_band_grid.Cell with no index
\* outside the grid, also for the dilation band cells on the grid boundary.
C17_NoReadOutsideGrid ==
  reads_outside = {}

\* the hypervolume of the bounding box of the set of cells K
C27_HyperVolume(K) ==
  (Max({x[1] : x \in K}) - Min({x[1] : x \in K}) + 1)
    * (Max({x[2] : x \in K}) - Min({x[2] : x \in K}) + 1)

\* the bands of component C that may count as its outer band: those whose
\* bounding box has the largest hypervolume
C27_Largest(C) ==
  {K \in C10_DilationBands(C) :
     \A L \in C10_DilationBands(C) : C27_HyperVolume(K) >= C27_HyperVolume(L)}

\* the cells of T that have a face neighbor in the seed set
C27_TouchingSeed(T) ==
  {x \in T : \E y \in AsSet(frozen_indices) : C10_Adjacent(x, y, FALSE)}

\* the components that have at least two dilation bands
C27_Closed == {C \in C10_Components : Cardinality(C10_DilationBands(C)) >= 2}

\* C27: when InitialSignedNarrowBands returns without an error, every
\* component with at least two dilation bands has a band of largest bounding
\* box hypervolume (any one of them if several are largest) such that the
\* outside list holds exactly the cells of these outer bands that have a face
\* neighbor in the seed set, and the inside list exactly the cells of all
\* other bands that have a face neighbor in the seed set.
C27_OuterBandIsLargest ==
  (pc = "signed done" /\ err = "none") =>
    \E outer \in [C27_Closed -> UNION {C27_Largest(C) : C \in C27_Closed}] :
      /\ \A C \in C27_Closed : outer[C] \in C27_Largest(C)
      /\ AsSet(outside_narrow_band_indices) =
           C27_TouchingSeed(UNION {outer[C] : C \in C27_Closed})
      /\ AsSet(inside_narrow_band_indices) =
           C27_TouchingSeed(UNION {UNION (C10_DilationBands(C) \ {outer[C]}) :
                                     C \in C27_Closed})

\* C29: when InitialSignedNarrowBands returns without an error, no cell is in
\* both lists, no cell is twice in a list and no listed cell is a seed.
C29_ListsDisjoint ==
  (pc = "signed done" /\ err = "none") =>
    /\ AsSet(inside_narrow_band_indices) \cap AsSet(outside_narrow_band_indices) = {}
    /\ Cardinality(AsSet(inside_narrow_band_indices)) = Len(inside_narrow_band_indices)
    /\ Cardinality(AsSet(outside_narrow_band_indices)) = Len(outside_narrow_band_indices)
    /\ (AsSet(inside_narrow_band_indices) \cup AsSet(outside_narrow_band_indices))
         \cap AsSet(frozen_indices) = {}

\* ------------------------------------------------------------------------
\* The signed driver as a state machine
\* ------------------------------------------------------------------------
\* the arguments of the call are kept in grid_size, solver, frozen_indices and
\* frozen_distances
InitSignedDistance ==
  /\ pc = "signed distance"
  /\ \E in \in SignedDistanceInputs :
       /\ grid_size = in.grid_size
       /\ solver = EikonalSolver(in.dx, in.speed)
       /\ frozen_indices = in.frozen_indices
       /\ frozen_distances = in.frozen_distances
  /\ seeds = {}
  /\ distance_buffer = <<>>
  /\ allocated = FALSE
  /\ narrow_band = EmptyBag
  /\ err = "none"
  /\ result = <<>>
  /\ last_frozen = <<>>
  /\ inside_narrow_band_indices = <<>>
  /\ outside_narrow_band_indices = <<>>
  /\ reads_outside = {}
  /\ pops = 0
  /\ freezes = 0
  /\ popped = <<>>
  /\ solved = EmptyBag
  /\ solve_index = <<>>
  /\ q = <<>>
  /\ axis = 0
  /\ connected_components = <<>>
  /\ dilation_bands = <<>>
  /\ multiplier = -1

\* SignedDistance up to the return of InitialSignedNarrowBands
SignedDistanceSetUp ==
  /\ pc = "signed distance"
  /\ LET checks == SignedDistanceChecks(grid_size, solver.grid_spacing, solver.speed,
                                        frozen_indices, frozen_distances)
     IN IF checks # "none"
        THEN /\ err' = checks
             /\ pc' = "failed"
             /\ UNCHANGED <<distance_buffer, allocated, signed_vars>>
        ELSE \E buffer \in [0..(LinearSize(grid_size) - 1) -> {kMax}] :
             \E b \in {SetBoundaryConditionResult(frozen_indices, frozen_distances,
                                                   multiplier, "signed", buffer,
                                                   grid_size)} :
               /\ allocated' = TRUE
               /\ distance_buffer' = b.cells
               /\ IF b.err # "none"
                  THEN /\ err' = b.err
                       /\ pc' = "failed"
                       /\ UNCHANGED signed_vars
                  ELSE \E garbage \in BOOLEAN \X BOOLEAN :
                       \E r \in InitialSignedNarrowBands(frozen_indices, grid_size, garbage) :
                         /\ err' = r.err
                         /\ inside_narrow_band_indices' = r.inside
                         /\ outside_narrow_band_indices' = r.outside
                         /\ reads_outside' = r.reads
                         /\ pc' = IF r.err = "none" THEN "initialize inside" ELSE "failed"
  /\ seeds' = {<<frozen_indices[k], frozen_distances[k]>> :
                 k \in (1..Len(frozen_indices)) \cap (1..Len(frozen_distances))}
  /\ UNCHANGED <<solver, grid_size, frozen_indices, frozen_distances, narrow_band,
                 result, last_frozen>>
  /\ UNCHANGED march_vars
  /\ UNCHANGED local_vars

\* either call of InitializeNarrowBand
InitializeNarrowBandCall ==
  /\ pc \in {"initialize inside", "initialize outside"}
  /\ \E n \in {InitializeNarrowBand(
                 IF pc = "initialize inside" THEN inside_narrow_band_indices
                 ELSE outside_narrow_band_indices,
                 solver, distance_buffer, grid_size, narrow_band)} :
       /\ narrow_band' = n.band
       /\ err' = n.err
       /\ pc' = IF n.err # "none" THEN "failed"
                ELSE IF pc = "initialize inside" THEN "march inside"
                ELSE "march outside"
  /\ UNCHANGED <<solver, grid_size, frozen_indices, frozen_distances, seeds,
                 distance_buffer, allocated, result, last_frozen, signed_vars>>
  /\ UNCHANGED march_vars
  /\ UNCHANGED local_vars

\* one iteration of the loop of either call of MarchNarrowBand
SignedMarchNarrowBand ==
  /\ pc \in {"march inside", "march outside"}
  /\ narrow_band # EmptyBag
  /\ \E entry \in PopCandidates(narrow_band) :
       \E r \in {MarchIteration(entry, solver, distance_buffer, grid_size, narrow_band)} :
         /\ distance_buffer' = r.cells
         /\ narrow_band' = r.band
         /\ err' = r.err
         /\ last_frozen' = IF r.wrote /\ frozen(entry[1]) THEN <<entry[1]>>
                           ELSE last_frozen
         /\ pops' = pops + 1
         /\ freezes' = IF r.wrote /\ frozen(entry[1]) THEN freezes + 1 ELSE freezes
         /\ UNCHANGED popped
         /\ pc' = IF r.err # "none" THEN "failed"
                  ELSE IF BagCardinality(r.band) > MaxBand THEN "capped"
                  ELSE IF pops + 1 >= MaxPops /\ r.band # EmptyBag THEN "capped"
                  ELSE pc
  /\ UNCHANGED <<solver, grid_size, frozen_indices, frozen_distances, seeds,
                 allocated, result, signed_vars>>
  /\ UNCHANGED local_vars

\* the first march has ended: the for_each that negates the frozen cells
NegateFrozenCells ==
  /\ pc = "march inside"
  /\ narrow_band = EmptyBag
  /\ distance_buffer' = NegateFrozen(distance_buffer)
  /\ pc' = "initialize outside"
  /\ UNCHANGED <<solver, grid_size, frozen_indices, frozen_distances, seeds,
                 allocated, narrow_band, err, result, last_frozen, signed_vars>>
  /\ UNCHANGED march_vars
  /\ UNCHANGED local_vars

\* the second march has ended and SignedDistance returns distance_buffer
SignedReturn ==
  /\ pc = "march outside"
  /\ narrow_band = EmptyBag
  /\ result' = distance_buffer
  /\ pc' = "done"
  /\ UNCHANGED <<solver, grid_size, frozen_indices, frozen_distances, seeds,
                 distance_buffer, allocated, narrow_band, err, last_frozen,
                 signed_vars>>
  /\ UNCHANGED march_vars
  /\ UNCHANGED local_vars

NextSignedDistance ==
  \/ SignedDistanceSetUp
  \/ InitializeNarrowBandCall
  \/ SignedMarchNarrowBand
  \/ NegateFrozenCells
  \/ SignedReturn

SpecSignedDistance == InitSignedDistance /\ [][NextSignedDistance]_vars

\* ------------------------------------------------------------------------
\* Properties of the signed driver
\* ------------------------------------------------------------------------
Negated(distances) == [k \in DOMAIN distances |-> Times(-1, distances[k])]

\* the outcomes of the call of SignedDistance with the seed distances negated
NegatedCallOutcomes ==
  SignedDistanceOutcomes(grid_size, solver.grid_spacing, solver.speed,
                         frozen_indices, Negated(frozen_distances))

C28_SignFlip ==
  [][(pc = "march inside" /\ pc' = "initialize outside") =>
       /\ \A k \in DOMAIN distance_buffer :
            distance_buffer'[k] = IF frozen(distance_buffer[k])
                                  THEN Times(-1, distance_buffer[k])
                                  ELSE distance_buffer[k]
       /\ FrozenCells(distance_buffer') = FrozenCells(distance_buffer)
       /\ \A sd \in seeds : distance_buffer'[LinearIndexOf(sd[1])] = sd[2]]_vars

\* ------------------------------------------------------------------------
\* Grid as a state machine: construction over a buffer, then writes to cells
\* ------------------------------------------------------------------------
\* the sizes and the cell buffers a caller constructs a Grid with
AnyGridSizes == (0..MaxExtent) \X (0..MaxExtent)

CellBufferSizes == 0..(MaxExtent * MaxExtent)

InitGrid ==
  /\ pc = "grid"
  /\ solver = NoSolver
  /\ grid_size = NoGridSize
  /\ frozen_indices = <<>>
  /\ frozen_distances = <<>>
  /\ seeds = {}
  /\ distance_buffer = <<>>
  /\ allocated = FALSE
  /\ narrow_band = EmptyBag
  /\ err = "none"
  /\ result = <<>>
  /\ last_frozen = <<>>
  /\ inside_narrow_band_indices = <<>>
  /\ outside_narrow_band_indices = <<>>
  /\ reads_outside = {}
  /\ pops = 0
  /\ freezes = 0
  /\ popped = <<>>
  /\ solved = EmptyBag
  /\ solve_index = <<>>
  /\ q = <<>>
  /\ axis = 0
  /\ connected_components = <<>>
  /\ dilation_bands = <<>>
  /\ multiplier = 1

\* Grid(size, cell_buffer): distance_buffer is the cell buffer of the caller
GridConstruct ==
  /\ pc = "grid"
  /\ \E size \in AnyGridSizes : \E cell_buffer_size \in CellBufferSizes :
       /\ grid_size' = size
       /\ distance_buffer' = [k \in 0..(cell_buffer_size - 1) |-> 0]
       /\ err' = GridError(size, cell_buffer_size)
       /\ pc' = IF GridError(size, cell_buffer_size) = "none"
                THEN "grid constructed" ELSE "grid failed"
  /\ allocated' = TRUE
  /\ UNCHANGED <<solver, frozen_indices, frozen_distances, seeds, narrow_band,
                 result, last_frozen, signed_vars>>
  /\ UNCHANGED march_vars
  /\ UNCHANGED local_vars

\* grid.Cell(index) = d for an index inside the grid; frozen_indices keeps the
\* indices written and d is the number of the write
GridCellWrite ==
  /\ pc = "grid constructed"
  /\ Len(frozen_indices) < MaxWrites
  /\ \E index \in Indices(grid_size) :
       /\ frozen_indices' = Append(frozen_indices, index)
       /\ distance_buffer' =
            WithCell(distance_buffer, grid_size, index, Len(frozen_indices) + 1)
  /\ UNCHANGED <<pc, solver, grid_size, frozen_distances, seeds, allocated,
                 narrow_band, err, result, last_frozen, signed_vars>>
  /\ UNCHANGED march_vars
  /\ UNCHANGED local_vars

NextGrid ==
  \/ GridConstruct
  \/ GridCellWrite

SpecGrid == InitGrid /\ [][NextGrid]_vars

\* ------------------------------------------------------------------------
\* Properties of Grid
\* ------------------------------------------------------------------------
\* the offsets of the cell buffer that hold d
OffsetsHolding(d) == {k \in DOMAIN distance_buffer : distance_buffer[k] = d}

\* the index-to-offset map written to every cell of the grid once: each write
\* lands inside the buffer, no two on the same offset, and every offset is hit
C13_Bijection ==
  /\ \A index \in Indices(grid_size) :
       GridLinearIndex(index, GridStrides(grid_size)) \in 0..(LinearSize(grid_size) - 1)
  /\ \A a \in Indices(grid_size), b \in Indices(grid_size) :
       a # b => GridLinearIndex(a, GridStrides(grid_size)) #
                  GridLinearIndex(b, GridStrides(grid_size))
  /\ \A k \in 0..(LinearSize(grid_size) - 1) :
       \E index \in Indices(grid_size) :
         GridLinearIndex(index, GridStrides(grid_size)) = k
  /\ Len(frozen_indices) = 2 /\ frozen_indices[1] # frozen_indices[2]
       => OffsetsHolding(1) # {} /\ OffsetsHolding(2) # {}

\* the second write went to the index of the first with component i raised by
\* one, and landed on the offset after that of the first
C13_AdjacentAlong(i) ==
  (/\ Len(frozen_indices) = 2
   /\ frozen_indices[2] = Offset(frozen_indices[1], i, 1))
    => \E k \in OffsetsHolding(1) : OffsetsHolding(2) = {k + 1}

\* C13: the last axis varies fastest: a write to the index with the last
\* component raised by one lands on the adjacent offset, and the map from the
\* indices inside the grid to the offsets 0 .. linear size - 1 is a bijection.
C13_LastAxisFastest ==
  pc = "grid constructed" => C13_AdjacentAlong(kDimension) /\ C13_Bijection

\* C13 with the axes as the code has them: the first axis varies fastest.
C13_FirstAxisFastest ==
  pc = "grid constructed" => C13_AdjacentAlong(1) /\ C13_Bijection

\* two writes to cells next to each other along the first axis of a grid that
\* has more than one cell along both axes
C13_Witness ==
  /\ pc = "grid constructed"
  /\ grid_size[1] > 1 /\ grid_size[2] > 1
  /\ Len(frozen_indices) = 2
  /\ frozen_indices[2] = Offset(frozen_indices[1], 1, 1)
  /\ distance_buffer[LinearIndexOf(frozen_indices[1]) + 1] = 2

\* C14: the construction of a Grid fails exactly when a component of the size
\* is zero or the length of the buffer is not the product of the components.
C14_ConstructionFailsIff ==
  pc \in {"grid constructed", "grid failed"} =>
    /\ pc = "grid failed" <=>
         \/ grid_size[1] = 0 \/ grid_size[2] = 0
         \/ Cardinality(DOMAIN distance_buffer) # grid_size[1] * grid_size[2]
    /\ pc = "grid failed" <=> err # "none"

\* a size without a zero component is refused for the length of the buffer
C14_Witness ==
  /\ pc = "grid failed"
  /\ grid_size[1] > 0 /\ grid_size[2] > 0
  /\ Cardinality(DOMAIN distance_buffer) # grid_size[1] * grid_size[2]
  /\ err = "grid size does not match cell buffer size"

\* ------------------------------------------------------------------------
\* NarrowBandStore as a state machine
\* ------------------------------------------------------------------------
\* the entries pushed: two cells, the distances 0, 1/2 and 1 and a NaN, which
\* is what Solve returns next to a seed with a large distance
StoreEntries == {0, 1, Scale, kNaN} \X {<<0, 0>>, <<1, 0>>}

InitStore ==
  /\ pc = "store"
  /\ solver = NoSolver
  /\ grid_size = NoGridSize
  /\ frozen_indices = <<>>
  /\ frozen_distances = <<>>
  /\ seeds = {}
  /\ distance_buffer = <<>>
  /\ allocated = FALSE
  /\ narrow_band = EmptyBag
  /\ err = "none"
  /\ result = <<>>
  /\ last_frozen = <<>>
  /\ inside_narrow_band_indices = <<>>
  /\ outside_narrow_band_indices = <<>>
  /\ reads_outside = {}
  /\ pops = 0
  /\ freezes = 0
  /\ popped = <<>>
  /\ solved = EmptyBag
  /\ solve_index = <<>>
  /\ q = <<>>
  /\ axis = 0
  /\ connected_components = <<>>
  /\ dilation_bands = <<>>
  /\ multiplier = 1

\* NarrowBandStore::Push
StorePush ==
  /\ pc = "store"
  /\ BagCardinality(narrow_band) < MaxBand
  /\ \E entry \in StoreEntries : narrow_band' = Push(narrow_band, entry)
  /\ UNCHANGED <<pc, solver, grid_size, frozen_indices, frozen_distances, seeds,
                 distance_buffer, allocated, err, result, last_frozen,
                 signed_vars, march_vars, local_vars>>

\* NarrowBandStore::Pop on a store that is not empty
StorePop ==
  /\ pc = "store"
  /\ narrow_band # EmptyBag
  /\ \E entry \in PopCandidates(narrow_band) :
       /\ popped' = <<entry>>
       /\ narrow_band' = Remove(narrow_band, entry)
  /\ UNCHANGED <<pc, solver, grid_size, frozen_indices, frozen_distances, seeds,
                 distance_buffer, allocated, err, result, last_frozen,
                 signed_vars, pops, freezes, local_vars>>

NextStore ==
  \/ StorePush
  \/ StorePop

SpecStore == InitStore /\ [][NextStore]_vars

\* C19: a Pop removes exactly the entry it returns, once, and no entry that
\* stays in the store has a smaller distance than that entry; a Push adds its
\* entry and keeps every entry the store held.
C19_PopReturnsSmallest ==
  [][/\ BagCardinality(narrow_band') < BagCardinality(narrow_band) =>
          /\ Len(popped') = 1
          /\ narrow_band = Push(narrow_band', popped'[1])
          /\ \A e \in BagToSet(narrow_band') : ~Lt(e[1], popped'[1][1])
     /\ BagCardinality(narrow_band') > BagCardinality(narrow_band) =>
          \E entry \in StoreEntries : narrow_band' = Push(narrow_band, entry)]_vars

\* ------------------------------------------------------------------------
\* SolveEikonal and HighAccuracySolveEikonal as a state machine: one step for
\* each iteration of the loop over the axes
\* ------------------------------------------------------------------------
SolveGridSize == <<5, 2>>

\* the cell that is solved: one with two cells on either side along the first
\* axis, and a corner of the grid
SolveIndices == {<<2, 0>>, <<0, 0>>}

\* the cells of the distance grid that are given a value: the one and two step
\* neighbors of <<2, 0>>
SolveCells == {<<0, 0>>, <<1, 0>>, <<3, 0>>, <<4, 0>>, <<2, 1>>}

\* the values of these cells: not frozen, frozen at 0 and at 1/2, and the NaN
\* that a march next to a seed with a large distance leaves in a cell
SolveDistances == {kMax, 0, 1, kNaN}

SolveInputs ==
  {[kind |-> "uniform", grid_spacing |-> h, speed |-> 1,
    speed_grid_size |-> NoGridSize, speed_buffer |-> <<>>] :
     h \in {<<1, 1>>, <<1, 2>>}}

InitSolve ==
  /\ pc = "solve"
  /\ solver \in SolveInputs
  /\ grid_size = SolveGridSize
  /\ frozen_indices = <<>>
  /\ frozen_distances = <<>>
  /\ seeds = {}
  /\ \E d \in [SolveCells -> SolveDistances] :
       distance_buffer =
         [k \in 0..(LinearSize(SolveGridSize) - 1) |->
            IF \E c \in SolveCells : GridLinearIndex(c, GridStrides(SolveGridSize)) = k
            THEN d[CHOOSE c \in SolveCells :
                     GridLinearIndex(c, GridStrides(SolveGridSize)) = k]
            ELSE kMax]
  /\ allocated = TRUE
  /\ narrow_band = EmptyBag
  /\ err = "none"
  /\ result = <<>>
  /\ last_frozen = <<>>
  /\ inside_narrow_band_indices = <<>>
  /\ outside_narrow_band_indices = <<>>
  /\ reads_outside = {}
  /\ pops = 0
  /\ freezes = 0
  /\ popped = <<>>
  /\ solved = EmptyBag
  /\ solve_index = <<>>
  /\ q = <<>>
  /\ axis = 0
  /\ connected_components = <<>>
  /\ dilation_bands = <<>>
  /\ multiplier = 1

\* the call of either function, up to the loop over the axes
SolveEikonalCall ==
  /\ pc = "solve"
  /\ \E x \in SolveIndices : \E high \in BOOLEAN :
       /\ solve_index' = x
       /\ q' = InitialCoefficients(
                 solver.speed,
                 IF high THEN HighAccuracyInvDen(solver.speed, solver.grid_spacing)
                 ELSE InvDen(solver.speed, solver.grid_spacing))
       /\ pc' = IF high THEN "high order" ELSE "first order"
  /\ axis' = 1
  /\ UNCHANGED <<solver, grid_size, frozen_indices, frozen_distances, seeds,
                 distance_buffer, allocated, narrow_band, err, result, last_frozen,
                 signed_vars, march_vars, solved, connected_components,
                 dilation_bands, multiplier>>

\* one iteration of the loop over the axes of SolveEikonal
SolveEikonalAxisStep ==
  /\ pc = "first order"
  /\ axis <= kDimension
  /\ q' = SolveEikonalAxis(axis, q, solve_index, distance_buffer, grid_size,
                           solver.speed, solver.grid_spacing)
  /\ axis' = axis + 1
  /\ UNCHANGED <<pc, solver, grid_size, frozen_indices, frozen_distances, seeds,
                 distance_buffer, allocated, narrow_band, err, result, last_frozen,
                 signed_vars, march_vars, solved, solve_index,
                 connected_components, dilation_bands, multiplier>>

\* one iteration of the loop over the axes of HighAccuracySolveEikonal
HighAccuracySolveEikonalAxisStep ==
  /\ pc = "high order"
  /\ axis <= kDimension
  /\ q' = HighAccuracySolveEikonalAxis(axis, q, solve_index, distance_buffer, grid_size,
                                       solver.speed, solver.grid_spacing)
  /\ axis' = axis + 1
  /\ UNCHANGED <<pc, solver, grid_size, frozen_indices, frozen_distances, seeds,
                 distance_buffer, allocated, narrow_band, err, result, last_frozen,
                 signed_vars, march_vars, solved, solve_index,
                 connected_components, dilation_bands, multiplier>>

\* the loop has ended: SolveEikonalQuadratic(q) is returned, or throws
SolveEikonalReturn ==
  /\ pc \in {"first order", "high order"}
  /\ axis > kDimension
  /\ \E r \in {SolveEikonalQuadratic(
                 q, IF pc = "high order"
                    THEN HighAccuracyInvDen(solver.speed, solver.grid_spacing)
                    ELSE InvDen(solver.speed, solver.grid_spacing))} :
       /\ err' = r.err
       /\ result' = IF r.err = "none" THEN <<r.value>> ELSE <<>>
       /\ pc' = IF r.err = "none" THEN "solved" ELSE "solve failed"
  /\ UNCHANGED <<solver, grid_size, frozen_indices, frozen_distances, seeds,
                 distance_buffer, allocated, narrow_band, last_frozen,
                 signed_vars, march_vars, local_vars>>

NextSolve ==
  \/ SolveEikonalCall
  \/ SolveEikonalAxisStep
  \/ HighAccuracySolveEikonalAxisStep
  \/ SolveEikonalReturn

SpecSolve == InitSolve /\ [][NextSolve]_vars

\* ------------------------------------------------------------------------
\* Properties of the solvers
\* ------------------------------------------------------------------------
\* the directions along axis i in which solve_index has a face neighbor that is
\* inside the grid and frozen
FrozenDirections(i) ==
  {d \in AsSet(kNeighborOffsets) :
     /\ Inside(Offset(solve_index, i, d), grid_size)
     /\ frozen(Cell(distance_buffer, grid_size, Offset(solve_index, i, d)))}

\* the value of the face neighbor of solve_index along axis i in direction d
OneStep(i, d) == Cell(distance_buffer, grid_size, Offset(solve_index, i, d))

\* the least value of the frozen face neighbors of solve_index along axis i
FrozenMinimum(i) == Min({OneStep(i, d) : d \in FrozenDirections(i)})

\* C21: in an iteration of the loop over the axes of SolveEikonal the
\* coefficients stay as they are exactly when neither face neighbor of the
\* cell along that axis is inside the grid and frozen, and otherwise they
\* receive the first order contribution of the minimum of the frozen ones.
C21_FirstOrderUsesFrozenMinimum ==
  [][(pc = "first order" /\ axis <= kDimension) =>
       /\ (q' = q) <=> (FrozenDirections(axis) = {})
       /\ FrozenDirections(axis) # {} =>
            q' = FirstOrderCoefficients(q, FrozenMinimum(axis), solver.speed,
                                        solver.grid_spacing, axis)]_vars

\* the first axis has contributed for a cell whose two face neighbors along it
\* are frozen, the second of them at the smaller value
C21_Witness ==
  /\ pc = "first order"
  /\ axis = 2
  /\ solve_index = <<2, 0>>
  /\ frozen(Cell(distance_buffer, grid_size, <<1, 0>>))
  /\ Lt(Cell(distance_buffer, grid_size, <<3, 0>>),
        Cell(distance_buffer, grid_size, <<1, 0>>))
  /\ q = FirstOrderCoefficients(
           InitialCoefficients(solver.speed, InvDen(solver.speed, solver.grid_spacing)),
           Cell(distance_buffer, grid_size, <<3, 0>>), solver.speed,
           solver.grid_spacing, 1)

\* the second order test of direction d of axis i: the cell two steps away is
\* inside the grid, frozen and not above the cell one step away
TwoStepUsable(i, d) ==
  /\ Inside(Offset(Offset(solve_index, i, d), i, d), grid_size)
  /\ frozen(Cell(distance_buffer, grid_size, Offset(Offset(solve_index, i, d), i, d)))
  /\ Le(Cell(distance_buffer, grid_size, Offset(Offset(solve_index, i, d), i, d)),
        OneStep(i, d))

\* the coefficients after axis i when the minimum face neighbor is the one in
\* direction d
C22_Expected(i, d) ==
  IF TwoStepUsable(i, d)
  THEN SecondOrderCoefficients(
         q, OneStep(i, d),
         Cell(distance_buffer, grid_size, Offset(Offset(solve_index, i, d), i, d)),
         HighAccuracyInvDen(solver.speed, solver.grid_spacing),
         solver.grid_spacing, i)
  ELSE FirstOrderCoefficientsOver(
         q, OneStep(i, d), HighAccuracyInvDen(solver.speed, solver.grid_spacing),
         solver.grid_spacing, i)

\* C22: in an iteration of the loop over the axes of HighAccuracySolveEikonal
\* the axis receives the second order contribution exactly when the cell two
\* steps away in the direction of the minimum frozen face neighbor is inside
\* the grid, frozen and not above that neighbor (equal included), with the
\* value of that cell, and the first order contribution otherwise; of two
\* equal face neighbors either may count as the minimum.
C22_SecondOrderFromSameDirection ==
  [][(pc = "high order" /\ axis <= kDimension) =>
       IF FrozenDirections(axis) = {} THEN q' = q
       ELSE \E d \in FrozenDirections(axis) :
              /\ OneStep(axis, d) = FrozenMinimum(axis)
              /\ q' = C22_Expected(axis, d)]_vars

\* ------------------------------------------------------------------------
\* ConnectedComponents and DilationBands as a state machine
\* ------------------------------------------------------------------------
\* the index lists handed to ConnectedComponents: the seed lists of
\* InitialSignedNarrowBands, and short ones with their first index repeated
ComponentLists(size) ==
  SignedSeedLists(size)
    \cup {Append(list, list[1]) : list \in {l \in SignedSeedLists(size) : Len(l) <= 2}}

InitComponents ==
  /\ pc = "components"
  /\ solver = NoSolver
  /\ grid_size \in SignedGridSizes
  /\ frozen_indices \in ComponentLists(grid_size)
  /\ frozen_distances = <<>>
  /\ seeds = {}
  /\ distance_buffer = <<>>
  /\ allocated = FALSE
  /\ narrow_band = EmptyBag
  /\ err = "none"
  /\ result = <<>>
  /\ last_frozen = <<>>
  /\ inside_narrow_band_indices = <<>>
  /\ outside_narrow_band_indices = <<>>
  /\ reads_outside = {}
  /\ pops = 0
  /\ freezes = 0
  /\ popped = <<>>
  /\ solved = EmptyBag
  /\ solve_index = <<>>
  /\ q = <<>>
  /\ axis = 0
  /\ connected_components = <<>>
  /\ dilation_bands = <<>>
  /\ multiplier = 1

\* ConnectedComponents(frozen_indices, grid_size, offsets), with the vertex
\* offsets as InitialSignedNarrowBands calls it or the face offsets as
\* DilationBands does
ConnectedComponentsCall ==
  /\ pc = "components"
  /\ \E vertex \in BOOLEAN :
       /\ connected_components' =
            ConnectedComponents(frozen_indices, grid_size,
                                IF vertex THEN VertexNeighborOffsets
                                ELSE FaceNeighborOffsets)
       /\ pc' = IF vertex THEN "vertex components" ELSE "face components"
  /\ UNCHANGED <<solver, grid_size, frozen_indices, frozen_distances, seeds,
                 distance_buffer, allocated, narrow_band, err, result, last_frozen,
                 signed_vars, march_vars, solved, solve_index, q, axis,
                 dilation_bands, multiplier>>

\* DilationBands(connected_component, grid_size) for one of the components;
\* frozen_indices becomes the indices of this call
DilationBandsCall ==
  /\ pc = "vertex components"
  /\ \E c \in 1..Len(connected_components) :
       /\ frozen_indices' = connected_components[c]
       /\ dilation_bands' = DilationBands(connected_components[c], grid_size)
  /\ pc' = "bands"
  /\ UNCHANGED <<solver, grid_size, frozen_distances, seeds,
                 distance_buffer, allocated, narrow_band, err, result, last_frozen,
                 signed_vars, march_vars, solved, solve_index, q, axis,
                 connected_components, multiplier>>

NextComponents ==
  \/ ConnectedComponentsCall
  \/ DilationBandsCall

SpecComponents == InitComponents /\ [][NextComponents]_vars

\* ------------------------------------------------------------------------
\* Properties of ConnectedComponents and DilationBands
\* ------------------------------------------------------------------------
\* C24: the components returned by ConnectedComponents are not empty, hold no
\* index twice, every index of the input list is in exactly one of them and
\* they hold no other index; two indices are in the same component exactly
\* when a chain of input indices links them in which consecutive ones differ
\* by one of the offsets; also for a list that names an index twice.
C24_ComponentsPartition ==
  pc \in {"vertex components", "face components"} =>
    /\ \A c \in 1..Len(connected_components) :
         /\ Len(connected_components[c]) >= 1
         /\ Cardinality(AsSet(connected_components[c])) = Len(connected_components[c])
         /\ AsSet(connected_components[c]) \subseteq AsSet(frozen_indices)
    /\ \A x \in AsSet(frozen_indices) :
         Cardinality({c \in 1..Len(connected_components) :
                        x \in AsSet(connected_components[c])}) = 1
    /\ {AsSet(connected_components[c]) : c \in 1..Len(connected_components)} =
         C10_Classes(AsSet(frozen_indices), pc = "vertex components")

\* a list that names an index twice and an index next to it gives one
\* component of two indices
C24_Witness ==
  /\ pc = "face components"
  /\ Cardinality(AsSet(frozen_indices)) < Len(frozen_indices)
  /\ Len(connected_components) = 1
  /\ Len(connected_components[1]) = 2

\* the cells of the grid outside the component frozen_indices that are a
\* vertex neighbor of one of its cells
C25_Shell ==
  {x \in Indices(grid_size) \ AsSet(frozen_indices) :
     \E y \in AsSet(frozen_indices) : C10_Adjacent(x, y, TRUE)}

\* C25: the bands DilationBands returns for a component are not empty, no two
\* of them share a cell, none holds a cell of the component, and together
\* they are the cells of the grid outside the component that are a vertex
\* neighbor of one of its cells.
C25_BandsCoverShell ==
  pc = "bands" =>
    /\ \A b \in 1..Len(dilation_bands) :
         /\ Len(dilation_bands[b]) >= 1
         /\ AsSet(dilation_bands[b]) \cap AsSet(frozen_indices) = {}
    /\ \A a \in 1..Len(dilation_bands), b \in 1..Len(dilation_bands) :
         a # b => AsSet(dilation_bands[a]) \cap AsSet(dilation_bands[b]) = {}
    /\ UNION {AsSet(dilation_bands[b]) : b \in 1..Len(dilation_bands)} = C25_Shell

\* a component on the border of the grid with a band inside it and one
\* outside
C25_Witness ==
  /\ pc = "bands"
  /\ Len(dilation_bands) = 2
  /\ \E x \in AsSet(frozen_indices) : x[1] = 0
  /\ C25_Shell # {}

\* no cell of one band is a face neighbor of a cell of another band
C26_BandsApart ==
  \A a \in 1..Len(dilation_bands), b \in 1..Len(dilation_bands) :
    a # b => \A x \in AsSet(dilation_bands[a]), y \in AsSet(dilation_bands[b]) :
               ~C10_Adjacent(x, y, FALSE)

\* C26: every band DilationBands returns is connected under face adjacency as
\* a set of cells of the grid, and no cell of one band is a face neighbor of
\* a cell of another band.
C26_BandsConnectedInGrid ==
  pc = "bands" =>
    /\ \A b \in 1..Len(dilation_bands) :
         C10_Closure({dilation_bands[b][1]}, AsSet(dilation_bands[b]), FALSE) =
           AsSet(dilation_bands[b])
    /\ C26_BandsApart

\* the dilated cells: the cells of the grid padded by one cell on every side
\* that are outside the component frozen_indices and a vertex neighbor of one
\* of its cells
C26_PaddedShell ==
  {x \in ((-1..grid_size[1]) \X (-1..grid_size[2])) \ AsSet(frozen_indices) :
     \E y \in AsSet(frozen_indices) : C10_Adjacent(x, y, TRUE)}

\* the maximal face connected subsets of S
RECURSIVE C26_FaceClasses(_)
C26_FaceClasses(S) ==
  IF S = {} THEN {}
  ELSE LET K == C10_Closure({CHOOSE x \in S : TRUE}, S, FALSE)
       IN {K} \cup C26_FaceClasses(S \ K)

\* C26 with the connection taken in the padded grid: the bands are the parts
\* inside the grid of the maximal face connected sets of dilated cells of the
\* grid padded by one cell on every side, one band for each such set that
\* reaches into the grid, and no cell of one band is a face neighbor of a cell
\* of another band.
C26_BandsConnectedInPaddedGrid ==
  pc = "bands" =>
    LET bands == {AsSet(dilation_bands[b]) : b \in 1..Len(dilation_bands)}
    IN /\ bands = {K \cap Indices(grid_size) : K \in C26_FaceClasses(C26_PaddedShell)}
                    \ {{}}
       /\ Len(dilation_bands) = Cardinality(bands)
       /\ C26_BandsApart

\* a band that is in two parts inside the grid, next to a second band
C26_Witness ==
  /\ pc = "bands"
  /\ Len(dilation_bands) = 2
  /\ \E b \in 1..2 :
       C10_Closure({dilation_bands[b][1]}, AsSet(dilation_bands[b]), FALSE) #
         AsSet(dilation_bands[b])

\* ------------------------------------------------------------------------
\* SetBoundaryCondition called on its own, as either driver calls it
\* ------------------------------------------------------------------------
BoundaryGridSize == <<2, 2>>

MaxBoundarySeeds == 2

\* distance_grid is the buffer either driver has just allocated, indices a
\* list of at most MaxBoundarySeeds cells of the grid, a cell named twice
\* included; the seed distances are those the signed driver is offered and
\* +-infinity
InitBoundary ==
  /\ pc = "set boundary"
  /\ solver = NoSolver
  /\ grid_size = BoundaryGridSize
  /\ frozen_indices \in UNION {[1..n -> Indices(BoundaryGridSize)] :
                                n \in 1..MaxBoundarySeeds}
  /\ frozen_distances \in [1..Len(frozen_indices) -> SignedSeedDistances \cup {kInf, -kInf}]
  /\ multiplier \in {1, -1}
  /\ seeds = {}
  /\ distance_buffer = [k \in 0..(LinearSize(BoundaryGridSize) - 1) |-> kMax]
  /\ allocated = TRUE
  /\ narrow_band = EmptyBag
  /\ err = "none"
  /\ result = <<>>
  /\ last_frozen = <<>>
  /\ inside_narrow_band_indices = <<>>
  /\ outside_narrow_band_indices = <<>>
  /\ reads_outside = {}
  /\ pops = 0
  /\ freezes = 0
  /\ popped = <<>>
  /\ solved = EmptyBag
  /\ solve_index = <<>>
  /\ q = <<>>
  /\ axis = 0
  /\ connected_components = <<>>
  /\ dilation_bands = <<>>

\* the call with the multiplier and the distance predicate of a driver: 1
\* and the unsigned predicate, or -1 and the signed predicate
SetBoundaryConditionCall ==
  /\ pc = "set boundary"
  /\ \E r \in {SetBoundaryConditionResult(
                 frozen_indices, frozen_distances, multiplier,
                 IF multiplier = 1 THEN "unsigned" ELSE "signed",
                 distance_buffer, grid_size)} :
       /\ distance_buffer' = r.cells
       /\ err' = r.err
       /\ pc' = IF r.err = "none" THEN "boundary set" ELSE "failed"
  /\ UNCHANGED <<solver, grid_size, frozen_indices, frozen_distances, seeds,
                 allocated, narrow_band, result, last_frozen, signed_vars>>
  /\ UNCHANGED march_vars
  /\ UNCHANGED local_vars

NextBoundary == SetBoundaryConditionCall

SpecBoundary == InitBoundary /\ [][NextBoundary]_vars

\* C30: when SetBoundaryCondition has returned, every cell named in indices
\* is frozen, every other cell holds the sentinel, and indices names no cell
\* twice.
C30_SeedsFrozenAfterBoundary ==
  pc = "boundary set" =>
    /\ \A x \in Indices(grid_size) :
         IF x \in AsSet(frozen_indices)
         THEN frozen(Cell(distance_buffer, grid_size, x))
         ELSE Cell(distance_buffer, grid_size, x) = kMax
    /\ Cardinality(AsSet(frozen_indices)) = Len(frozen_indices)

====
